---- MODULE Spec2Model ----
(***************************************************************************)
(* The streaming transcription pipeline of openflow_transcriber.cpp:       *)
(* the VAD frame pump (process_pending_chunks), the segmentation state     *)
(* machine, flush_segment, the segment events written by                   *)
(* emit_transcription, and the drivers of the offline, stdin-audio and     *)
(* stdin-pcm modes of main().                                              *)
(*                                                                         *)
(* Audio buffers are modelled by their lengths in samples; the VAD         *)
(* service and the acoustic model are environments: each frame's           *)
(* probability (in percent), each VAD failure and each decode failure is   *)
(* a nondeterministic choice.  The avg_vad accumulators                    *)
(* (segment_prob_sum/segment_prob_count) feed only the avg_vad field,      *)
(* which no modelled event field depends on, and are not carried.          *)
(***************************************************************************)
EXTENDS Integers, Sequences, FiniteSets, TLC

\* ---------------------------------------------------------------- constants

\* WHISPER_SAMPLE_RATE, the sample rate of the decoder boundary
SampleRate == 16000

\* SileroVadRunner::expected_chunk_size
VadChunkSamples == 512

\* ------------------------------------------------------------------ bounds

\* frames of audio the environment delivers over a free run with short timers
MaxFrames == 8

\* frames of audio of the free run whose timers are a second long
LongFrames == 33

\* changes of VAD probability level between consecutive frames of a free run
MaxSwitches == 2

\* VAD inference failures over a free run
MaxVadFailures == 1

\* acoustic-model decode failures over a free run
MaxDecodeFailures == 1

\* jobs (input lines / B tags) over a free run of a stdin mode
MaxJobs == 2

\* tag bytes that are no message, in one run
MaxUnknownTags == 1

\* len_ms of the capture ring (milliseconds of audio it retains)
RingLenMs == 2

\* callbacks the audio device makes over a run of the capture ring
MaxDeliveries == 3

\* the smallest dictionary_poll_ms the command line accepts
DictPollMs == 10

\* poll intervals of steady clock over a run of the dictionary loader
MaxPolls == 2

\* changes made to the dictionary file over a run
MaxFileChanges == 2

Max(a, b) == IF a >= b THEN a ELSE b

Min(a, b) == IF a <= b THEN a ELSE b

\* ------------------------------------------------------- parameter settings

\* vad_params as initialised in the struct (the defaults)
DefaultParams ==
    [step_ms |-> 200, start_threshold |-> 60, stop_threshold |-> 35,
     min_segment_ms |-> 250, max_segment_ms |-> 12000, min_silence_ms |-> 150,
     pre_padding_ms |-> 200, post_padding_ms |-> 350, emit_vad_events |-> TRUE]

\* a command line with short timers: fast partial cadence, little post padding
ShortParams ==
    [step_ms |-> 10, start_threshold |-> 60, stop_threshold |-> 35,
     min_segment_ms |-> 40, max_segment_ms |-> 1000, min_silence_ms |-> 40,
     pre_padding_ms |-> 20, post_padding_ms |-> 5, emit_vad_events |-> TRUE]

\* a command line whose pre-padding is as long as the maximum segment
LongPreParams ==
    [step_ms |-> 200, start_threshold |-> 60, stop_threshold |-> 35,
     min_segment_ms |-> 250, max_segment_ms |-> 1000, min_silence_ms |-> 150,
     pre_padding_ms |-> 1000, post_padding_ms |-> 350, emit_vad_events |-> TRUE]

\* the derived sample counts computed at the top of main()
\* the defaults with partials disabled (--step -1)
NoPartialsParams == [DefaultParams EXCEPT !.step_ms = -1]

enable_partials(p) == p.step_ms >= 0

step_samples(p) ==
    IF enable_partials(p) THEN Max(1, (p.step_ms * SampleRate) \div 1000) ELSE 0

pre_padding_samples(p) == Max(0, (p.pre_padding_ms * SampleRate) \div 1000)

post_padding_samples(p) == Max(0, (p.post_padding_ms * SampleRate) \div 1000)

min_silence_samples(p) == Max(0, (p.min_silence_ms * SampleRate) \div 1000)

min_segment_samples(p) == Max(0, (p.min_segment_ms * SampleRate) \div 1000)

max_segment_samples(p) ==
    Max(SampleRate, (p.max_segment_ms * SampleRate) \div 1000)

\* ------------------------------------------------------------------- state

VARIABLES
    mode,                      \* "offline" | "stdin_audio" | "stdin_pcm"
    pc,                        \* position of main(): "read" | "pump" | "exit"
    params,                    \* the parsed vad_params
    pending_samples,           \* length of the staging deque
    staging,                   \* the staging deque: spans of sample numbers
    chunk_buffer,              \* the frame most recently cut from it
    staged_total,              \* history: samples pushed to staging so far
    dropped,                   \* history: samples cleared since the last frame
    cut_end,                   \* history: the number after the last sample cut
    segment_buf,               \* content of the utterance buffer, as spans
    pre_roll_buf,              \* content of the pre-roll deque, as spans
    final_audio,               \* history: audio of the latest final decode
    pre_roll,                  \* length of the pre-roll deque
    current_segment,           \* length of the utterance buffer
    in_segment,
    segment_start_sample,
    last_voice_sample,
    processed_samples_total,
    segment_index,
    active_segment_index,
    partial_sequence,
    last_partial_emit_sample,
    events,                    \* the segment events written to stdout, in order
    vad_events,                \* number of vad events written to stdout
    job_events,                \* the job_start / job_end events, in order
    utt,                       \* history: number of activations so far
    resets,                    \* history: number of reset_segment_state calls
    skipped_tags,              \* history: tag bytes that are no message
    peak,                      \* history: highest frame probability so far
    last_flush,                \* history: what the most recent flush_segment did
    scenario,                  \* environment: which input is fed
    input_left,                \* environment: samples still to be delivered
    last_level,                \* environment: probability of the previous frame
    switches_left,             \* environment: remaining level changes
    vad_failures_left,         \* environment: remaining VAD failures
    decode_failures_left,      \* environment: remaining decode failures
    jobs_left,                 \* environment: remaining jobs
    ends_left                  \* environment: remaining E tags (in stdin-pcm
                               \* mode one more than B tags)

\* the capture ring (audio_async) and its caller
VARIABLES
    m_dev_id_in,               \* TRUE when init() opened a capture device
    m_running,
    m_audio,                   \* the circular buffer, indexed from 0
    m_audio_pos,
    m_audio_len,
    m_total_samples,
    result,                    \* the caller's output vector after get
    current_time_ms,           \* the caller's time variable after get
    ring_op,                   \* history: the most recent call and its outcome
    produced,                  \* history: samples delivered since resume/clear
    next_sample,               \* environment: value of the next sample
    deliveries_left            \* environment: remaining callbacks

\* the capture loop of main()
VARIABLES
    fetch_window_ms,
    last_fetch_time_ms,
    since_poll                 \* environment: samples delivered since the
                               \* last poll of the loop

livevars == <<fetch_window_ms, last_fetch_time_ms, since_poll>>

ringvars == <<m_dev_id_in, m_running, m_audio, m_audio_pos, m_audio_len,
              m_total_samples, result, current_time_ms, ring_op, produced,
              next_sample, deliveries_left, livevars>>

\* the dictionary loader (reload_dictionary_if_needed) and its environment
VARIABLES
    dictionary_path,           \* "" when --dictionary-file was not given
    dictionary_cache,          \* the file's text, a sequence of characters
    dictionary_token_seqs,
    dictionary_entry_texts,
    dictionary_first_tokens,   \* first tokens in order of first appearance
    dictionary_first_token_ids,
    last_dictionary_reload,    \* steady-clock ms of the last examination
    last_dictionary_write_time,
    last_dictionary_entries_raw,
    last_dictionary_total_tokens,
    last_dictionary_error,
    dict_pc,                   \* "start" before the forced call of main()
    dict_op,                   \* history: the most recent call and its outcome
    clock,                     \* environment: the steady clock, ms
    dict_file,                 \* environment: the file on disk
    file_changes_left          \* environment: remaining changes of the file

dictstate == <<dictionary_cache, dictionary_token_seqs,
               dictionary_entry_texts, dictionary_first_tokens,
               dictionary_first_token_ids, last_dictionary_reload,
               last_dictionary_write_time, last_dictionary_entries_raw,
               last_dictionary_total_tokens, last_dictionary_error>>

dictvars == <<dictionary_path, dictstate, dict_pc, dict_op, clock, dict_file,
              file_changes_left>>

segvars == <<pre_roll, current_segment, in_segment, segment_start_sample,
             last_voice_sample, processed_samples_total, segment_index,
             active_segment_index, partial_sequence, last_partial_emit_sample>>

envvars == <<scenario, input_left, last_level, switches_left,
             vad_failures_left, decode_failures_left, jobs_left,
             ends_left>>

stagevars == <<staging, chunk_buffer, staged_total, dropped, cut_end>>

bufvars == <<segment_buf, pre_roll_buf, final_audio>>

pipevars == <<mode, pc, params, pending_samples, stagevars, bufvars, segvars, events, vad_events,
              job_events, utt, resets, skipped_tags, peak, last_flush,
              envvars>>

\* one invocation of whisper_logits_filter_cb
VARIABLES
    cb_pc,                     \* "ready" before the invocation, "done" after
    cb_in,                     \* the arguments and the decode context
    cb_out                     \* the logits on return and the packet written

cbvars == <<cb_pc, cb_in, cb_out>>

\* emit_transcription: the decode of one audio segment, step by step
VARIABLES
    dec_pc,                    \* position in main() and emit_transcription
    dec_params,                \* the command line options
    dec_args,                  \* segment_idx, partial_seq, is_final
    bctx,                      \* the bias_decode_context of this decode
    initial_prompt,            \* wparams.initial_prompt: <<>> or <<text>>
    beam_size,                 \* wparams.beam_search.beam_size
    warned_beam_size_clamp,
    stdout,                    \* the events written so far
    stderr,                    \* the lines written so far
    n_tokens,                  \* tokens decoded so far in whisper_full
    decode_no,                 \* history: calls of emit_transcription so far
    dec_call,                  \* history: the reload at this decode's entry
    built_from                 \* history: the indices when bctx was built

decvars == <<dec_pc, dec_params, dec_args, bctx, initial_prompt, beam_size,
             warned_beam_size_clamp, stdout, stderr, n_tokens, decode_no,
             dec_call, built_from>>

\* the state of the decoder and of its logits callback
biasvars == <<cbvars, decvars>>

\* the state of the components that the file and stdin drivers do not use
nonpipevars == <<ringvars, dictvars, biasvars>>

vars == <<pipevars, nonpipevars>>

\* the segmentation state as one value, for the operators below
SegState ==
    [pre_roll |-> pre_roll, current_segment |-> current_segment,
     in_segment |-> in_segment, segment_start_sample |-> segment_start_sample,
     last_voice_sample |-> last_voice_sample,
     processed_samples_total |-> processed_samples_total,
     segment_index |-> segment_index,
     active_segment_index |-> active_segment_index,
     partial_sequence |-> partial_sequence,
     last_partial_emit_sample |-> last_partial_emit_sample]

\* the state the locals of main() are initialised to, and reset_segment_state
ResetState ==
    [pre_roll |-> 0, current_segment |-> 0, in_segment |-> FALSE,
     segment_start_sample |-> 0, last_voice_sample |-> 0,
     processed_samples_total |-> 0, segment_index |-> 0,
     active_segment_index |-> -1, partial_sequence |-> 0,
     last_partial_emit_sample |-> 0]

SetSeg(s) ==
    /\ pre_roll' = s.pre_roll
    /\ current_segment' = s.current_segment
    /\ in_segment' = s.in_segment
    /\ segment_start_sample' = s.segment_start_sample
    /\ last_voice_sample' = s.last_voice_sample
    /\ processed_samples_total' = s.processed_samples_total
    /\ segment_index' = s.segment_index
    /\ active_segment_index' = s.active_segment_index
    /\ partial_sequence' = s.partial_sequence
    /\ last_partial_emit_sample' = s.last_partial_emit_sample

\* ------------------------------------------------------------ segment events

\* the timing fields emit_transcription computes for a buffer of `size` samples
SegmentTiming(start_sample, size) ==
    LET segment_start_ms == (start_sample * 1000) \div SampleRate
        segment_end_ms == segment_start_ms + (size * 1000) \div SampleRate
    IN  [start_ms |-> segment_start_ms,
         end_ms |-> segment_end_ms,
         duration_ms |-> Max(0, segment_end_ms - segment_start_ms)]

\* mutant: the segment event is written although whisper_full failed
emit_transcription_despite_failure(size, segment_idx, start_sample, is_final, partial_seq, decode_ok, u, cause) ==
    IF size = 0
    THEN <<>>
    ELSE LET t == SegmentTiming(start_sample, size)
         IN  << [segment_index |-> segment_idx,
                 start_ms |-> t.start_ms,
                 end_ms |-> t.end_ms,
                 duration_ms |-> t.duration_ms,
                 final |-> is_final,
                 partial_seq |-> partial_seq,
                 samples |-> size,
                 utt |-> u,
                 cause |-> cause] >>

\* emit_transcription: the segment events one call writes (none for an empty
\* buffer or when whisper_full fails).  utt and cause are history fields.
emit_transcription(size, segment_idx, start_sample, is_final, partial_seq, decode_ok, u, cause) ==
    IF size = 0 \/ ~decode_ok
    THEN <<>>
    ELSE LET t == SegmentTiming(start_sample, size)
         IN  << [segment_index |-> segment_idx,
                 start_ms |-> t.start_ms,
                 end_ms |-> t.end_ms,
                 duration_ms |-> t.duration_ms,
                 final |-> is_final,
                 partial_seq |-> partial_seq,
                 samples |-> size,
                 utt |-> u,
                 cause |-> cause] >>

\* the segment_idx argument both call sites pass
EmitIndex(s) ==
    IF s.active_segment_index >= 0 THEN s.active_segment_index
    ELSE s.segment_index

\* ------------------------------------------------------------ flush_segment

\* mutant: the forced flag is ignored
KeepSamplesIgnoringForced(p, s, forced_flush) ==
    LET wanted == s.last_voice_sample + post_padding_samples(p)
        wanted_end_sample == IF wanted < s.segment_start_sample
                             THEN s.segment_start_sample ELSE wanted
        desired == Max(0, wanted_end_sample - s.segment_start_sample)
    IN  IF desired > s.current_segment THEN s.current_segment ELSE desired

\* keep_samples: how much of the utterance buffer a flush keeps
KeepSamples(p, s, forced_flush) ==
    IF forced_flush
    THEN s.current_segment
    ELSE LET wanted == s.last_voice_sample + post_padding_samples(p)
             wanted_end_sample == IF wanted < s.segment_start_sample
                                  THEN s.segment_start_sample ELSE wanted
             desired == Max(0, wanted_end_sample - s.segment_start_sample)
         IN  IF desired > s.current_segment THEN s.current_segment ELSE desired

\* mutant: the pre-roll is never trimmed
PushPreRollUncapped(p, len, n) == len + n

\* the pre-roll after `n` samples were pushed one by one with the size cap
PushPreRoll(p, len, n) ==
    IF n = 0 THEN len ELSE Min(len + n, pre_padding_samples(p))

\* mutant: the whole buffer is measured instead of the kept length
TooShortBuffer(p, s, keep) == s.current_segment < min_segment_samples(p)

\* the test that discards a short utterance
TooShort(p, s, keep) == keep < min_segment_samples(p)

\* mutant: the early return clears the pre-roll like the discard branch
FlushIdleClearingPreRoll(s) ==
    [s EXCEPT !.current_segment = 0, !.in_segment = FALSE, !.pre_roll = 0]

\* the early return of flush_segment: nothing to flush
FlushIdle(s) == [s EXCEPT !.current_segment = 0, !.in_segment = FALSE]

\* the discard branch of flush_segment
FlushDiscard(s) ==
    [s EXCEPT !.current_segment = 0, !.in_segment = FALSE, !.pre_roll = 0]

\* mutant: segment_index is not incremented
FlushEmittedNoIncrement(p, s, keep) ==
    [s EXCEPT !.pre_roll = PushPreRoll(p, 0, s.current_segment - keep),
              !.current_segment = 0,
              !.in_segment = FALSE,
              !.partial_sequence = 0,
              !.last_partial_emit_sample = 0,
              !.active_segment_index = -1,
              !.segment_start_sample = s.processed_samples_total,
              !.last_voice_sample = s.processed_samples_total]

\* the state flush_segment leaves after the final decode of keep samples
FlushEmitted(p, s, keep) ==
    [s EXCEPT !.pre_roll = PushPreRoll(p, 0, s.current_segment - keep),
              !.current_segment = 0,
              !.in_segment = FALSE,
              !.partial_sequence = 0,
              !.last_partial_emit_sample = 0,
              !.active_segment_index = -1,
              !.segment_index = s.segment_index + 1,
              !.segment_start_sample = s.processed_samples_total,
              !.last_voice_sample = s.processed_samples_total]

\* mutant: the final decode is made after the state was reset, so that it
\* carries the incremented segment_index
flush_segment_late_emit(p, s, forced_flush, decode_ok, u, cause) ==
    IF ~s.in_segment \/ s.current_segment = 0
    THEN [s |-> FlushIdle(s), ev |-> <<>>, decoded |-> FALSE,
          flush |-> [kind |-> "idle", forced |-> forced_flush, keep |-> 0,
                     buffer |-> s.current_segment, utt |-> u,
                     cause |-> cause, ok |-> TRUE]]
    ELSE LET keep == KeepSamples(p, s, forced_flush)
         IN  IF TooShort(p, s, keep)
             THEN [s |-> FlushDiscard(s), ev |-> <<>>, decoded |-> FALSE,
                   flush |-> [kind |-> "discard", forced |-> forced_flush,
                              keep |-> keep, buffer |-> s.current_segment,
                              utt |-> u, cause |-> cause, ok |-> TRUE]]
             ELSE [s |-> FlushEmitted(p, s, keep),
                   ev |-> emit_transcription(keep,
                                             EmitIndex(FlushEmitted(p, s, keep)),
                                             s.segment_start_sample, TRUE,
                                             s.partial_sequence, decode_ok,
                                             u, cause),
                   decoded |-> keep > 0,
                   flush |-> [kind |-> "final", forced |-> forced_flush,
                              keep |-> keep, buffer |-> s.current_segment,
                              utt |-> u, cause |-> cause, ok |-> decode_ok]]

\* flush_segment(forced_flush): the new state, the events written, and a
\* history record of what the flush did
flush_segment(p, s, forced_flush, decode_ok, u, cause) ==
    IF ~s.in_segment \/ s.current_segment = 0
    THEN [s |-> FlushIdle(s), ev |-> <<>>, decoded |-> FALSE,
          flush |-> [kind |-> "idle", forced |-> forced_flush, keep |-> 0,
                     buffer |-> s.current_segment, utt |-> u,
                     cause |-> cause, ok |-> TRUE]]
    ELSE LET keep == KeepSamples(p, s, forced_flush)
         IN  IF TooShort(p, s, keep)
             THEN [s |-> FlushDiscard(s), ev |-> <<>>, decoded |-> FALSE,
                   flush |-> [kind |-> "discard", forced |-> forced_flush,
                              keep |-> keep, buffer |-> s.current_segment,
                              utt |-> u, cause |-> cause, ok |-> TRUE]]
             ELSE [s |-> FlushEmitted(p, s, keep),
                   ev |-> emit_transcription(keep, EmitIndex(s),
                                             s.segment_start_sample, TRUE,
                                             s.partial_sequence, decode_ok,
                                             u, cause),
                   decoded |-> keep > 0,
                   flush |-> [kind |-> "final", forced |-> forced_flush,
                              keep |-> keep, buffer |-> s.current_segment,
                              utt |-> u, cause |-> cause, ok |-> decode_ok]]

\* --------------------------------------------------- process_pending_chunks

\* mutant: the pre-roll is not counted in the segment start
StartSampleNoPreRoll(total, pre) ==
    LET v == total - VadChunkSamples IN IF v < 0 THEN 0 ELSE v

\* segment_start_sample at activation, clamped at 0
StartSample(total, pre) ==
    LET v == total - pre - VadChunkSamples IN IF v < 0 THEN 0 ELSE v

\* mutant: the utterance buffer starts with the frame alone
ActivateDroppingPreRoll(s, total) ==
    LET start == StartSample(total, s.pre_roll)
    IN  [s EXCEPT !.current_segment = VadChunkSamples,
                  !.segment_start_sample = start,
                  !.active_segment_index = s.segment_index,
                  !.partial_sequence = 0,
                  !.last_partial_emit_sample = start,
                  !.pre_roll = 0,
                  !.last_voice_sample = total,
                  !.processed_samples_total = total,
                  !.in_segment = TRUE]

\* the Inactive -> Active branch of the frame loop
Activate(s, total) ==
    LET start == StartSample(total, s.pre_roll)
    IN  [s EXCEPT !.current_segment = s.pre_roll + VadChunkSamples,
                  !.segment_start_sample = start,
                  !.active_segment_index = s.segment_index,
                  !.partial_sequence = 0,
                  !.last_partial_emit_sample = start,
                  !.pre_roll = 0,
                  !.last_voice_sample = total,
                  !.processed_samples_total = total,
                  !.in_segment = TRUE]

\* mutant: the minimum length is not required
PartialDueNoMinimum(p, s) ==
    /\ enable_partials(p)
    /\ (s.segment_start_sample + s.current_segment)
          - s.last_partial_emit_sample >= step_samples(p)

\* the condition under which the frame loop decodes a partial
PartialDue(p, s) ==
    /\ enable_partials(p)
    /\ s.current_segment >= min_segment_samples(p)
    /\ (s.segment_start_sample + s.current_segment)
          - s.last_partial_emit_sample >= step_samples(p)

\* mutant: the sample of the last partial is not recorded
AfterPartialNoStamp(s) ==
    [s EXCEPT !.partial_sequence = s.partial_sequence + 1]

\* the bookkeeping after a partial decode was attempted
AfterPartial(s) ==
    [s EXCEPT !.last_partial_emit_sample =
                  s.segment_start_sample + s.current_segment,
              !.partial_sequence = s.partial_sequence + 1]

\* mutant: the length is measured from the last voiced frame
OverMaxSinceVoice(p, s) ==
    s.processed_samples_total - s.last_voice_sample
        >= max_segment_samples(p)

\* the two flush triggers of the frame loop
OverMax(p, s) ==
    s.processed_samples_total - s.segment_start_sample
        >= max_segment_samples(p)

\* mutant: the post padding is not waited for
SilenceFlushWithoutPost(p, s) ==
    LET silence_samples == s.processed_samples_total - s.last_voice_sample
    IN  silence_samples >= min_silence_samples(p)

\* enough_silence && has_post
SilenceFlush(p, s) ==
    LET silence_samples == s.processed_samples_total - s.last_voice_sample
    IN  /\ silence_samples >= min_silence_samples(p)
        /\ silence_samples >= post_padding_samples(p)

\* one iteration of the frame loop after a successful VAD inference:
\* s is the state before the frame, prob the frame's probability (percent),
\* okP / okF whether a partial / final decode made by this frame succeeds;
\* the record of a flush made here carries silence_samples (history)
FrameStep(p, s, prob, okP, okF, u) ==
    LET total == s.processed_samples_total + VadChunkSamples
        idle == [kind |-> "none"]
    IN
    IF ~s.in_segment /\ prob >= p.start_threshold
    THEN [s |-> Activate(s, total), ev |-> <<>>, partial |-> FALSE,
          decoded |-> FALSE, flush |-> idle, activated |-> TRUE]
    ELSE IF s.in_segment
    THEN LET s1 == [s EXCEPT !.current_segment = s.current_segment + VadChunkSamples,
                             !.processed_samples_total = total,
                             !.last_voice_sample =
                                 IF prob >= p.stop_threshold THEN total
                                 ELSE s.last_voice_sample]
             due == PartialDue(p, s1)
             evP == IF due
                    THEN emit_transcription(s1.current_segment, EmitIndex(s1),
                                            s1.segment_start_sample, FALSE,
                                            s1.partial_sequence, okP, u,
                                            "partial")
                    ELSE <<>>
             s2 == IF due THEN AfterPartial(s1) ELSE s1
             f  == IF OverMax(p, s2)
                   THEN flush_segment(p, s2, TRUE, okF, u, "max")
                   ELSE IF SilenceFlush(p, s2)
                   THEN flush_segment(p, s2, FALSE, okF, u, "silence")
                   ELSE [s |-> s2, ev |-> <<>>, decoded |-> FALSE,
                         flush |-> idle]
             silence == s2.processed_samples_total - s2.last_voice_sample
         IN  [s |-> f.s, ev |-> evP \o f.ev, partial |-> due,
              decoded |-> f.decoded,
              flush |-> IF f.flush = idle THEN idle
                        ELSE f.flush @@ [silence |-> silence],
              activated |-> FALSE]
    ELSE [s |-> [s EXCEPT !.processed_samples_total = total,
                          !.pre_roll = PushPreRoll(p, s.pre_roll, VadChunkSamples)],
          ev |-> <<>>, partial |-> FALSE, decoded |-> FALSE, flush |-> idle,
          activated |-> FALSE]

\* ------------------------------------------------------------- environment

\* the probability levels (percent) the VAD service may report in a free run
ProbLevels == {5, 50, 90}

\* what each run feeds: "free" and "long" are any bounded input, "silence"
\* is 2.0 s of frames of probability 0, "maxlen" is 13 s of frames of
\* probability 0.9, "tone" is silence, a tone, silence (see FrameLevels)
ScenarioLevels(sc) ==
    IF sc = "silence" THEN {0}
    ELSE IF sc = "maxlen" THEN {90}
    ELSE ProbLevels

\* the "tone" input: 400 ms below 0.05, 800 ms above 0.9, 500 ms below 0.05
ToneStart == (400 * SampleRate) \div 1000

ToneEnd == (1200 * SampleRate) \div 1000

ToneTotal == (1700 * SampleRate) \div 1000

\* the probabilities the VAD service may report for the frame that begins at
\* sample `total` of the input: a frame that straddles an edge of the tone
\* may get any level
FrameLevels(sc, total) ==
    IF sc = "tone"
    THEN IF total + VadChunkSamples <= ToneStart \/ total >= ToneEnd
         THEN {5}
         ELSE IF total >= ToneStart /\ total + VadChunkSamples <= ToneEnd
         THEN {90}
         ELSE ProbLevels
    ELSE ScenarioLevels(sc)

Run(m, sc, p, samples, sw, vf, df, jobs) ==
    [mode |-> m, scenario |-> sc, params |-> p, samples |-> samples,
     switches |-> sw, vad_failures |-> vf, decode_failures |-> df,
     jobs |-> jobs]

\* the runs explored: mode, input, command line, and the environment's budget
Runs ==
    {Run("offline", "free", ShortParams, MaxFrames * VadChunkSamples,
         MaxSwitches, MaxVadFailures, MaxDecodeFailures, 1),
     Run("stdin_audio", "free", ShortParams, MaxFrames * VadChunkSamples,
         MaxSwitches, MaxVadFailures, 0, MaxJobs),
     Run("stdin_pcm", "free", ShortParams, MaxFrames * VadChunkSamples,
         MaxSwitches - 1, 0, 0, MaxJobs - 1),
     Run("offline", "long", LongPreParams, LongFrames * VadChunkSamples - 312,
         MaxSwitches - 1, 0, 0, 1),
     Run("offline", "silence", DefaultParams, 2 * SampleRate, 0, 0, 0, 1),
     Run("stdin_audio", "silence", DefaultParams, 2 * SampleRate, 0, 0, 0, 1),
     Run("stdin_pcm", "silence", DefaultParams, 2 * SampleRate, 0, 0, 0, 1),
     Run("offline", "maxlen", DefaultParams, 13 * SampleRate, 0, 0, 0, 1),
     Run("offline", "tone", NoPartialsParams, ToneTotal, 4, 0, 0, 1)}

\* lengths (samples) of the audio files of a run
FileLengths(sc, left) ==
    IF sc = "free"
    THEN {n \in {200, 3 * VadChunkSamples, MaxFrames * VadChunkSamples - 312} :
             n <= left}
    ELSE {n \in {left} : n > 0}

\* payload sizes (samples) of the J messages of a run
JSizes(sc, left) ==
    IF sc = "free" THEN {n \in {768} : n <= left}
    ELSE {n \in {left} : n > 0}

\* mutant: no padding
PadToChunkNone(n) == n

\* the zero padding main() appends so that the staged length is a multiple
\* of the VAD chunk
PadToChunk(n) ==
    LET rem == n % VadChunkSamples
    IN  IF rem # 0 THEN n + (VadChunkSamples - rem) ELSE n

\* ---------------------------------------------------------- staging deque
\* pending_samples with its content: every sample pushed gets the next
\* number, and the deque is the sequence of spans [lo, hi) of numbers it
\* holds, oldest first

\* push_back of n samples numbered from, from + 1, ...
StagePush(q, from, n) ==
    IF n = 0 THEN q
    ELSE IF q # <<>> /\ q[Len(q)].hi = from
    THEN [q EXCEPT ![Len(q)].hi = from + n]
    ELSE Append(q, [lo |-> from, hi |-> from + n])

\* size()
RECURSIVE StageSize(_)
StageSize(q) ==
    IF q = <<>> THEN 0 ELSE (Head(q).hi - Head(q).lo) + StageSize(Tail(q))

\* the range [begin(), begin() + n)
RECURSIVE StageTake(_, _)
StageTake(q, n) ==
    IF n = 0 \/ q = <<>> THEN <<>>
    ELSE LET h == Head(q)
             w == h.hi - h.lo
         IN  IF w <= n THEN <<h>> \o StageTake(Tail(q), n - w)
             ELSE <<[lo |-> h.lo, hi |-> h.lo + n]>>

\* the deque after erase(begin(), begin() + n)
RECURSIVE StageDrop(_, _)
StageDrop(q, n) ==
    IF n = 0 \/ q = <<>> THEN q
    ELSE LET h == Head(q)
             w == h.hi - h.lo
         IN  IF w <= n THEN StageDrop(Tail(q), n - w)
             ELSE <<[lo |-> h.lo + n, hi |-> h.hi]>> \o Tail(q)

\* mutant: the frame is cut from the newest end of the deque
CutChunkNewest(q) ==
    LET size == StageSize(q)
    IN  [chunk |-> StageDrop(q, size - VadChunkSamples),
         rest |-> StageTake(q, size - VadChunkSamples)]

\* the head of the frame loop: chunk_buffer.assign and pending_samples.erase
CutChunk(q) ==
    [chunk |-> StageTake(q, VadChunkSamples),
     rest |-> StageDrop(q, VadChunkSamples)]

\* insert(end(), b.begin(), b.end()), and assign for an empty a
RECURSIVE StageConcat(_, _)
StageConcat(a, b) ==
    IF b = <<>> THEN a
    ELSE StageConcat(StagePush(a, Head(b).lo, Head(b).hi - Head(b).lo), Tail(b))

\* a deque after the loop { push_back; if (size() > cap) pop_front; } over
\* the samples of q, starting empty or below the cap
StageTakeLast(q, cap) ==
    IF StageSize(q) > cap THEN StageDrop(q, StageSize(q) - cap) ELSE q

\* mutant: the leftover of a flush is not moved to the pre-roll
FlushBuffersDropLeftover(p, flush, seg, pre) ==
    IF flush.kind = "idle"
    THEN [seg |-> <<>>, pre |-> pre, audio |-> <<>>, decoded |-> FALSE]
    ELSE IF flush.kind = "discard"
    THEN [seg |-> <<>>, pre |-> <<>>, audio |-> <<>>, decoded |-> FALSE]
    ELSE [seg |-> <<>>, pre |-> <<>>,
          audio |-> StageTake(seg, flush.keep), decoded |-> TRUE]

\* the buffers of flush_segment: audio_segment is the first keep_samples of
\* current_segment, the leftover goes to the cleared pre-roll
FlushBuffers(p, flush, seg, pre) ==
    IF flush.kind = "idle"
    THEN [seg |-> <<>>, pre |-> pre, audio |-> <<>>, decoded |-> FALSE]
    ELSE IF flush.kind = "discard"
    THEN [seg |-> <<>>, pre |-> <<>>, audio |-> <<>>, decoded |-> FALSE]
    ELSE [seg |-> <<>>,
          pre |-> StageTakeLast(StageDrop(seg, flush.keep),
                                pre_padding_samples(p)),
          audio |-> StageTake(seg, flush.keep), decoded |-> TRUE]

\* the buffers after one iteration of the frame loop whose outcome is r
FrameBuffers(p, r, seg, pre, chunk) ==
    IF r.activated
    THEN [seg |-> StageConcat(pre, chunk), pre |-> <<>>, audio |-> <<>>,
          decoded |-> FALSE]
    ELSE IF r.flush.kind # "none"
    THEN FlushBuffers(p, r.flush, StageConcat(seg, chunk), pre)
    ELSE IF r.s.in_segment
    THEN [seg |-> StageConcat(seg, chunk), pre |-> pre, audio |-> <<>>,
          decoded |-> FALSE]
    ELSE [seg |-> seg,
          pre |-> StageTakeLast(StageConcat(pre, chunk), pre_padding_samples(p)),
          audio |-> <<>>, decoded |-> FALSE]

\* the assignments of the three buffers from such a record
SetBuffers(b) ==
    /\ segment_buf' = b.seg
    /\ pre_roll_buf' = b.pre
    /\ final_audio' = IF b.decoded THEN b.audio ELSE final_audio

\* the capture ring before init(): no device, nothing allocated
RingIdle ==
    /\ m_dev_id_in = FALSE
    /\ m_running = FALSE
    /\ m_audio = <<>>
    /\ m_audio_pos = 0
    /\ m_audio_len = 0
    /\ m_total_samples = 0
    /\ result = <<>>
    /\ current_time_ms = 0
    /\ ring_op = [op |-> "none"]
    /\ produced = <<>>
    /\ next_sample = 1
    /\ deliveries_left = 0
    /\ fetch_window_ms = 0
    /\ last_fetch_time_ms = 0
    /\ since_poll = 0

\* time_point::min() and file_time_type::min()
MinTime == -1

\* the dictionary state as declared in main(), before the first call
DictDeclared ==
    /\ dictionary_cache = <<>>
    /\ dictionary_token_seqs = <<>>
    /\ dictionary_entry_texts = <<>>
    /\ dictionary_first_tokens = <<>>
    /\ dictionary_first_token_ids = {}
    /\ last_dictionary_reload = MinTime
    /\ last_dictionary_write_time = MinTime
    /\ last_dictionary_entries_raw = 0
    /\ last_dictionary_total_tokens = 0
    /\ last_dictionary_error = ""

\* the dictionary loader while it is not exercised
DictIdle ==
    /\ DictDeclared
    /\ dictionary_path = ""
    /\ dict_pc = "start"
    /\ dict_op = [op |-> "none"]
    /\ clock = 0
    /\ dict_file = [present |-> FALSE, readable |-> FALSE, mtime |-> 0,
                    content |-> <<>>]
    /\ file_changes_left = 0

\* a bias_decode_context as declared: the member initializers of the struct,
\* biases in hundredths of a logit, null pointers as FALSE
BctxDeclared ==
    [segment_index |-> -1, partial_seq |-> -1, is_final |-> FALSE,
     dict_token_seqs |-> FALSE, dict_first_tokens |-> FALSE,
     dict_first_token_ids |-> FALSE, dict_entries |-> 0,
     dict_first_tokens_total |-> 0, enabled |-> FALSE,
     bias_first_logit |-> 35, bias_continuation_logit |-> 85,
     logits_top_k |-> 50, logits_boosted_k |-> 24, writer |-> FALSE,
     emit_stdout_packets |-> TRUE]

\* the logits callback while it is not exercised
CbIdle ==
    /\ cb_pc = "idle"
    /\ cb_in = [op |-> "none"]
    /\ cb_out = [op |-> "none"]

\* the decoder while it is not exercised
DecodeIdle ==
    /\ dec_pc = "idle"
    /\ dec_params = [op |-> "none"]
    /\ dec_args = [op |-> "none"]
    /\ bctx = BctxDeclared
    /\ initial_prompt = <<>>
    /\ beam_size = 0
    /\ warned_beam_size_clamp = FALSE
    /\ stdout = <<>>
    /\ stderr = <<>>
    /\ n_tokens = 0
    /\ decode_no = 0
    /\ dec_call = [op |-> "none"]
    /\ built_from = [op |-> "none"]

Init ==
    /\ RingIdle
    /\ DictIdle
    /\ CbIdle
    /\ DecodeIdle
    /\ \E r \in Runs :
          /\ mode = r.mode
          /\ scenario = r.scenario
          /\ params = r.params
          /\ input_left = r.samples
          /\ switches_left = r.switches
          /\ vad_failures_left = r.vad_failures
          /\ decode_failures_left = r.decode_failures
          /\ jobs_left = r.jobs
          /\ ends_left = IF r.mode = "stdin_pcm" THEN r.jobs + 1 ELSE r.jobs
    /\ pc = "read"
    /\ pending_samples = 0
    /\ staging = <<>>
    /\ chunk_buffer = <<>>
    /\ staged_total = 0
    /\ dropped = 0
    /\ cut_end = 0
    /\ segment_buf = <<>>
    /\ pre_roll_buf = <<>>
    /\ final_audio = <<>>
    /\ pre_roll = 0
    /\ current_segment = 0
    /\ in_segment = FALSE
    /\ segment_start_sample = 0
    /\ last_voice_sample = 0
    /\ processed_samples_total = 0
    /\ segment_index = 0
    /\ active_segment_index = -1
    /\ partial_sequence = 0
    /\ last_partial_emit_sample = 0
    /\ events = <<>>
    /\ vad_events = 0
    /\ job_events = <<>>
    /\ utt = 0
    /\ resets = 0
    /\ skipped_tags = 0
    /\ peak = -1
    /\ last_flush = [kind |-> "none"]
    /\ last_level = -1

\* ------------------------------------------------------------------ actions

\* the events of one step, stamped with the job (history) they belong to
Stamp(evs) == [i \in 1..Len(evs) |-> evs[i] @@ [job |-> resets]]

\* mutant: a frame whose inference fails still advances the timeline
InferFailsAdvancingTimeline ==
    /\ vad_failures_left > 0
    /\ vad_failures_left' = vad_failures_left - 1
    /\ last_flush' = [kind |-> "none"]
    /\ SetSeg([SegState EXCEPT !.processed_samples_total = @ + VadChunkSamples])
    /\ UNCHANGED <<bufvars, events, vad_events, utt, peak,
                   last_level, switches_left, decode_failures_left>>

\* vad->infer throws: the catch clause logs and continues with the next
\* frame, before anything but the staging deque was touched
InferFails ==
    /\ vad_failures_left > 0
    /\ vad_failures_left' = vad_failures_left - 1
    /\ last_flush' = [kind |-> "none"]
    /\ UNCHANGED <<segvars, bufvars, events, vad_events, utt, peak,
                   last_level, switches_left, decode_failures_left>>

\* one iteration of the while loop of process_pending_chunks
ProcessFrame ==
    /\ UNCHANGED <<nonpipevars, skipped_tags>>
    /\ pc = "pump"
    /\ pending_samples >= VadChunkSamples
    /\ pending_samples' = pending_samples - VadChunkSamples
    /\ chunk_buffer' = CutChunk(staging).chunk
    /\ staging' = CutChunk(staging).rest
    /\ dropped' = 0
    /\ cut_end' = chunk_buffer'[Len(chunk_buffer')].hi
    /\ UNCHANGED staged_total
    /\ pc' = IF mode = "stdin_pcm" /\ pending_samples' < VadChunkSamples
             THEN "read" ELSE "pump"
    /\ \/ InferFails
       \/ \E prob \in FrameLevels(scenario, processed_samples_total),
             okP, okF \in BOOLEAN :
             LET r == FrameStep(params, SegState, prob, okP, okF, utt)
                 failed == (IF okP THEN 0 ELSE 1) + (IF okF THEN 0 ELSE 1)
                 switch == last_level # -1 /\ prob # last_level
             IN  /\ switch => switches_left > 0
                 /\ ~okP => r.partial
                 /\ ~okF => r.decoded
                 /\ failed <= decode_failures_left
                 /\ decode_failures_left' = decode_failures_left - failed
                 /\ switches_left' = IF switch THEN switches_left - 1
                                     ELSE switches_left
                 /\ last_level' = prob
                 /\ peak' = Max(peak, prob)
                 /\ SetSeg(r.s)
                 /\ SetBuffers(FrameBuffers(params, r, segment_buf,
                                            pre_roll_buf, chunk_buffer'))
                 /\ events' = events \o Stamp(r.ev)
                 /\ vad_events' = IF params.emit_vad_events THEN vad_events + 1
                                  ELSE vad_events
                 /\ utt' = IF r.activated THEN utt + 1 ELSE utt
                 /\ last_flush' = r.flush
                 /\ UNCHANGED vad_failures_left
    /\ UNCHANGED <<mode, params, job_events, resets, scenario, input_left,
                   jobs_left, ends_left>>

\* the flush_segment(true) that ends a file, in the modes that read files
EndOfFile ==
    /\ UNCHANGED <<nonpipevars, skipped_tags>>
    /\ mode \in {"offline", "stdin_audio"}
    /\ pc = "pump"
    /\ pending_samples < VadChunkSamples
    /\ \E okF \in BOOLEAN :
          LET f == flush_segment(params, SegState, TRUE, okF, utt, "end")
          IN  /\ ~okF => (f.decoded /\ decode_failures_left > 0)
              /\ decode_failures_left' = IF okF THEN decode_failures_left
                                         ELSE decode_failures_left - 1
              /\ SetSeg(f.s)
              /\ SetBuffers(FlushBuffers(params, f.flush, segment_buf,
                                         pre_roll_buf))
              /\ events' = events \o Stamp(f.ev)
              /\ last_flush' = f.flush
    /\ job_events' = IF mode = "stdin_audio"
                     THEN Append(job_events, "job_end") ELSE job_events
    /\ pc' = IF mode = "stdin_audio" THEN "read" ELSE "exit"
    /\ UNCHANGED <<mode, params, pending_samples, stagevars, vad_events, utt, resets,
                   peak, scenario, input_left, last_level, switches_left,
                   vad_failures_left, jobs_left, ends_left>>

\* offline mode: the file is read, staged and padded
LoadOffline ==
    /\ UNCHANGED <<nonpipevars, skipped_tags>>
    /\ mode = "offline"
    /\ pc = "read"
    /\ \E n \in FileLengths(scenario, input_left) :
          /\ pending_samples' = PadToChunk(pending_samples + n)
          /\ staging' = StagePush(staging, staged_total,
                                  pending_samples' - pending_samples)
          /\ staged_total' = staged_total + (pending_samples' - pending_samples)
          /\ input_left' = input_left - n
    /\ UNCHANGED <<chunk_buffer, dropped, cut_end, bufvars>>
    /\ pc' = "pump"
    /\ last_flush' = [kind |-> "none"]
    /\ UNCHANGED <<mode, params, segvars, events, vad_events, job_events, utt,
                   resets, peak, scenario, last_level, switches_left,
                   vad_failures_left, decode_failures_left, jobs_left,
                   ends_left>>

\* stdin-audio mode: one line naming a readable file
ReadLine ==
    /\ UNCHANGED <<nonpipevars, skipped_tags>>
    /\ mode = "stdin_audio"
    /\ pc = "read"
    /\ jobs_left > 0
    /\ \E n \in FileLengths(scenario, input_left) :
          /\ pending_samples' = PadToChunk(n)
          /\ staging' = StagePush(<<>>, staged_total, pending_samples')
          /\ staged_total' = staged_total + pending_samples'
          /\ input_left' = input_left - n
    /\ dropped' = dropped + StageSize(staging)
    /\ segment_buf' = <<>>
    /\ pre_roll_buf' = <<>>
    /\ chunk_buffer' = <<>>
    /\ UNCHANGED <<cut_end, final_audio>>
    /\ SetSeg(ResetState)
    /\ job_events' = Append(job_events, "job_start")
    /\ pc' = "pump"
    /\ jobs_left' = jobs_left - 1
    /\ resets' = resets + 1
    /\ last_flush' = [kind |-> "none"]
    /\ UNCHANGED <<mode, params, events, vad_events, utt, peak, scenario,
                   last_level, switches_left, vad_failures_left,
                   decode_failures_left, ends_left>>

\* stdin-pcm mode: tag B
TagB ==
    /\ UNCHANGED <<nonpipevars, skipped_tags>>
    /\ mode = "stdin_pcm"
    /\ pc = "read"
    /\ jobs_left > 0
    /\ pending_samples' = 0
    /\ staging' = <<>>
    /\ dropped' = dropped + StageSize(staging)
    /\ segment_buf' = <<>>
    /\ pre_roll_buf' = <<>>
    /\ chunk_buffer' = <<>>
    /\ UNCHANGED <<staged_total, cut_end, final_audio>>
    /\ SetSeg(ResetState)
    /\ job_events' = Append(job_events, "job_start")
    /\ jobs_left' = jobs_left - 1
    /\ resets' = resets + 1
    /\ last_flush' = [kind |-> "none"]
    /\ UNCHANGED <<mode, pc, params, events, vad_events, utt, peak, scenario,
                   input_left, last_level, switches_left, vad_failures_left,
                   decode_failures_left, ends_left>>

\* stdin-pcm mode: tag E
TagE ==
    /\ UNCHANGED <<nonpipevars, skipped_tags>>
    /\ mode = "stdin_pcm"
    /\ pc = "read"
    /\ ends_left > 0
    /\ \E okF \in BOOLEAN :
          LET f == flush_segment(params, SegState, TRUE, okF, utt, "end")
          IN  /\ ~okF => (f.decoded /\ decode_failures_left > 0)
              /\ decode_failures_left' = IF okF THEN decode_failures_left
                                         ELSE decode_failures_left - 1
              /\ SetSeg(f.s)
              /\ SetBuffers(FlushBuffers(params, f.flush, segment_buf,
                                         pre_roll_buf))
              /\ events' = events \o Stamp(f.ev)
              /\ last_flush' = f.flush
    /\ job_events' = Append(job_events, "job_end")
    /\ ends_left' = ends_left - 1
    /\ UNCHANGED <<mode, pc, params, pending_samples, stagevars, vad_events, utt,
                   resets, peak, scenario, input_left, last_level,
                   switches_left, vad_failures_left, jobs_left>>

\* stdin-pcm mode: tag J with n > 0 samples, which are staged and pumped
TagJ ==
    /\ UNCHANGED <<nonpipevars, skipped_tags>>
    /\ mode = "stdin_pcm"
    /\ pc = "read"
    /\ \E n \in JSizes(scenario, input_left) :
          /\ pending_samples' = pending_samples + n
          /\ staging' = StagePush(staging, staged_total, n)
          /\ staged_total' = staged_total + n
          /\ input_left' = input_left - n
    /\ UNCHANGED <<chunk_buffer, dropped, cut_end, bufvars>>
    /\ pc' = IF pending_samples' >= VadChunkSamples THEN "pump" ELSE "read"
    /\ last_flush' = [kind |-> "none"]
    /\ UNCHANGED <<mode, params, segvars, events, vad_events, job_events, utt,
                   resets, peak, scenario, last_level, switches_left,
                   vad_failures_left, decode_failures_left, jobs_left,
                   ends_left>>

\* stdin-audio mode: one line naming a file that read_wav_mono_f32 cannot
\* read; the state is reset before the file is opened
ReadLineFailed ==
    /\ UNCHANGED <<nonpipevars, skipped_tags>>
    /\ mode = "stdin_audio"
    /\ pc = "read"
    /\ jobs_left > 0
    /\ pending_samples' = 0
    /\ staging' = <<>>
    /\ dropped' = dropped + StageSize(staging)
    /\ segment_buf' = <<>>
    /\ pre_roll_buf' = <<>>
    /\ chunk_buffer' = <<>>
    /\ UNCHANGED <<staged_total, cut_end, final_audio>>
    /\ SetSeg(ResetState)
    /\ jobs_left' = jobs_left - 1
    /\ resets' = resets + 1
    /\ last_flush' = [kind |-> "none"]
    /\ UNCHANGED <<mode, pc, params, events, vad_events, job_events, utt,
                   peak, scenario, input_left, last_level, switches_left,
                   vad_failures_left, decode_failures_left, ends_left>>

\* stdin-pcm mode: a tag byte other than B, E, J and Q matches none of the
\* tests of the loop body, which ends; the loop reads the next tag
TagOther ==
    /\ UNCHANGED nonpipevars
    /\ mode = "stdin_pcm"
    /\ pc = "read"
    /\ skipped_tags < MaxUnknownTags
    /\ skipped_tags' = skipped_tags + 1
    /\ last_flush' = [kind |-> "none"]
    /\ UNCHANGED <<mode, pc, params, pending_samples, stagevars, bufvars, segvars, events,
                   vad_events, job_events, utt, resets, peak, envvars>>

\* the stdin loops end: __quit__, tag Q, or end of stdin
Quit ==
    /\ UNCHANGED <<nonpipevars, skipped_tags>>
    /\ mode \in {"stdin_audio", "stdin_pcm"}
    /\ pc = "read"
    /\ pc' = "exit"
    /\ last_flush' = [kind |-> "none"]
    /\ UNCHANGED <<mode, params, pending_samples, stagevars, bufvars, segvars, events, vad_events,
                   job_events, utt, resets, peak, envvars>>

Next ==
    \/ ProcessFrame
    \/ EndOfFile
    \/ LoadOffline
    \/ ReadLine
    \/ TagB
    \/ TagE
    \/ TagJ
    \/ ReadLineFailed
    \/ TagOther
    \/ Quit

Spec == Init /\ [][Next]_vars

\* ========================================================== capture ring
\* audio_async of common-sdl.cpp: a circular buffer filled by the device
\* callback and read by get.  Samples are modelled by their serial numbers.

\* the ring's fields as one value
RingState ==
    [dev |-> m_dev_id_in, running |-> m_running, audio |-> m_audio,
     pos |-> m_audio_pos, len |-> m_audio_len, total |-> m_total_samples]

SetRing(r) ==
    /\ m_dev_id_in' = r.dev
    /\ m_running' = r.running
    /\ m_audio' = r.audio
    /\ m_audio_pos' = r.pos
    /\ m_audio_len' = r.len
    /\ m_total_samples' = r.total

\* m_audio.size()
AudioSize(r) == Cardinality(DOMAIN r.audio)

\* m_sample_rate: the obtained rate once init() opened the device
RingSampleRate(r) == IF r.dev THEN SampleRate ELSE 0

\* init(): on success the buffer is allocated (zeros) and the timeline reset
ring_init(r, opened) ==
    IF ~opened
    THEN [r |-> [r EXCEPT !.dev = FALSE], ret |-> FALSE]
    ELSE [r |-> [r EXCEPT !.dev = TRUE,
                          !.audio = [i \in 0..((SampleRate * RingLenMs) \div 1000 - 1) |-> 0],
                          !.total = 0, !.pos = 0, !.len = 0],
          ret |-> TRUE]

\* mutant: a refused resume of a running ring still resets the timeline
resume_always_resets(r) ==
    IF ~r.dev THEN [r |-> r, ret |-> FALSE]
    ELSE IF r.running
    THEN [r |-> [r EXCEPT !.total = 0, !.pos = 0, !.len = 0], ret |-> FALSE]
    ELSE [r |-> [r EXCEPT !.total = 0, !.pos = 0, !.len = 0,
                          !.running = TRUE],
          ret |-> TRUE]

resume(r) ==
    IF ~r.dev THEN [r |-> r, ret |-> FALSE]
    ELSE IF r.running THEN [r |-> r, ret |-> FALSE]
    ELSE [r |-> [r EXCEPT !.total = 0, !.pos = 0, !.len = 0,
                          !.running = TRUE],
          ret |-> TRUE]

pause(r) ==
    IF ~r.dev THEN [r |-> r, ret |-> FALSE]
    ELSE IF ~r.running THEN [r |-> r, ret |-> FALSE]
    ELSE [r |-> [r EXCEPT !.running = FALSE], ret |-> TRUE]

\* mutant: clear also resets the timeline
clear_resets_total(r) ==
    IF ~r.dev THEN [r |-> r, ret |-> FALSE]
    ELSE IF ~r.running THEN [r |-> r, ret |-> FALSE]
    ELSE [r |-> [r EXCEPT !.pos = 0, !.len = 0, !.total = 0], ret |-> TRUE]

clear(r) ==
    IF ~r.dev THEN [r |-> r, ret |-> FALSE]
    ELSE IF ~r.running THEN [r |-> r, ret |-> FALSE]
    ELSE [r |-> [r EXCEPT !.pos = 0, !.len = 0], ret |-> TRUE]

\* the part of a delivery the callback copies: at most the newest size() samples
KeptOfStream(r, stream) ==
    IF Len(stream) > AudioSize(r)
    THEN SubSeq(stream, Len(stream) - AudioSize(r) + 1, Len(stream))
    ELSE stream

\* mutant: the part of a delivery that passes the end of the buffer is lost
CopyInNoWrap(r, kept) ==
    [i \in DOMAIN r.audio |->
        IF i >= r.pos /\ i < r.pos + Len(kept) THEN kept[i - r.pos + 1]
        ELSE r.audio[i]]

\* the two memcpy of the callback: kept[1..n0] to pos.., the rest to 0..
CopyIn(r, kept) ==
    LET n == Len(kept)
        size == AudioSize(r)
    IN  IF r.pos + n > size
        THEN LET n0 == size - r.pos
             IN  [i \in DOMAIN r.audio |->
                     IF i >= r.pos /\ i < r.pos + n0 THEN kept[i - r.pos + 1]
                     ELSE IF i < n - n0 THEN kept[n0 + i + 1]
                     ELSE r.audio[i]]
        ELSE [i \in DOMAIN r.audio |->
                 IF i >= r.pos /\ i < r.pos + n THEN kept[i - r.pos + 1]
                 ELSE r.audio[i]]

\* mutant: the timeline advances by the samples kept, not those delivered
callback_counts_kept(r, stream) ==
    IF ~r.running THEN r
    ELSE LET kept == KeptOfStream(r, stream)
             n_samples == Len(kept)
         IN  [r EXCEPT !.audio = CopyIn(r, kept),
                       !.pos = (r.pos + n_samples) % AudioSize(r),
                       !.len = Min(r.len + n_samples, AudioSize(r)),
                       !.total = r.total + n_samples]

\* callback(stream, len) with len / sizeof(float) = Len(stream) samples
callback(r, stream) ==
    IF ~r.running THEN r
    ELSE LET kept == KeptOfStream(r, stream)
             n_samples == Len(kept)
         IN  [r EXCEPT !.audio = CopyIn(r, kept),
                       !.pos = (r.pos + n_samples) % AudioSize(r),
                       !.len = Min(r.len + n_samples, AudioSize(r)),
                       !.total = r.total + Len(stream)]

\* number of samples get copies for a window of ms
WindowSamples(r, ms) ==
    LET ms2 == IF ms <= 0 THEN RingLenMs ELSE ms
        n == (RingSampleRate(r) * ms2) \div 1000
    IN  IF n > r.len THEN r.len ELSE n

\* the two memcpy of get: n samples ending at pos, unwrapped
CopyOut(r, n_samples) ==
    LET size == AudioSize(r)
        s00 == r.pos - n_samples
        s0 == IF s00 < 0 THEN s00 + size ELSE s00
    IN  IF s0 + n_samples > size
        THEN LET n0 == size - s0
             IN  [i \in 1..n_samples |->
                     IF i <= n0 THEN r.audio[s0 + i - 1]
                     ELSE r.audio[i - n0 - 1]]
        ELSE [i \in 1..n_samples |-> r.audio[s0 + i - 1]]

\* the timeline get reports
TimelineMs(r) ==
    IF RingSampleRate(r) > 0
    THEN (r.total * 1000) \div RingSampleRate(r)
    ELSE 0

\* get(ms, result, current_time_ms): what the caller's two variables hold
\* after the call, given what they held before
get(r, ms, old_result, old_time) ==
    IF ~r.dev THEN [result |-> old_result, time |-> old_time, done |-> FALSE]
    ELSE IF ~r.running
    THEN [result |-> old_result, time |-> old_time, done |-> FALSE]
    ELSE [result |-> CopyOut(r, WindowSamples(r, ms)),
          time |-> TimelineMs(r), done |-> TRUE]

\* the pipeline's variables while only the capture ring is exercised
PipeIdle ==
    /\ mode = "mic"
    /\ pc = "capture"
    /\ params = DefaultParams
    /\ pending_samples = 0
    /\ staging = <<>>
    /\ chunk_buffer = <<>>
    /\ staged_total = 0
    /\ dropped = 0
    /\ cut_end = 0
    /\ segment_buf = <<>>
    /\ pre_roll_buf = <<>>
    /\ final_audio = <<>>
    /\ pre_roll = 0
    /\ current_segment = 0
    /\ in_segment = FALSE
    /\ segment_start_sample = 0
    /\ last_voice_sample = 0
    /\ processed_samples_total = 0
    /\ segment_index = 0
    /\ active_segment_index = -1
    /\ partial_sequence = 0
    /\ last_partial_emit_sample = 0
    /\ events = <<>>
    /\ vad_events = 0
    /\ job_events = <<>>
    /\ utt = 0
    /\ resets = 0
    /\ skipped_tags = 0
    /\ peak = -1
    /\ last_flush = [kind |-> "none"]
    /\ scenario = "ring"
    /\ input_left = 0
    /\ last_level = -1
    /\ switches_left = 0
    /\ vad_failures_left = 0
    /\ decode_failures_left = 0
    /\ jobs_left = 0
    /\ ends_left = 0

\* sizes (samples) of the deliveries of the device, for a buffer of `size`
DeliverySizes(size) == {5, 12, size, size + 8}

\* the window arguments (ms) callers pass to get
GetWindows == {-1, 1, RingLenMs + 1}

\* what the caller's output vector may hold before a call of get
OldVectors == {<<>>, <<-1, -1>>}

\* the state after the constructor audio_async(len_ms)
RingInit ==
    /\ PipeIdle
    /\ CbIdle
    /\ DecodeIdle
    /\ DictIdle
    /\ m_dev_id_in = FALSE
    /\ m_running = FALSE
    /\ m_audio = <<>>
    /\ m_audio_pos = 0
    /\ m_audio_len = 0
    /\ m_total_samples = 0
    /\ result = <<>>
    /\ current_time_ms = 0
    /\ ring_op = [op |-> "none"]
    /\ produced = <<>>
    /\ next_sample = 1
    /\ deliveries_left = MaxDeliveries
    /\ fetch_window_ms = 0
    /\ last_fetch_time_ms = 0
    /\ since_poll = 0

\* init(capture_id, sample_rate), called at most once, first
RingInitCall ==
    /\ ring_op.op = "none"
    /\ \E opened \in BOOLEAN :
          LET c == ring_init(RingState, opened)
          IN  /\ SetRing(c.r)
              /\ ring_op' = [op |-> "init", ret |-> c.ret, arg |-> 0,
                             before |-> RingState, old |-> <<>>]
    /\ UNCHANGED <<result, current_time_ms, produced, next_sample,
                   deliveries_left, livevars,
                   pipevars, dictvars, biasvars>>

RingResume ==
    /\ ring_op.op # "none"
    /\ LET c == resume(RingState)
       IN  /\ SetRing(c.r)
           /\ ring_op' = [op |-> "resume", ret |-> c.ret, arg |-> 0,
                          before |-> RingState, old |-> <<>>]
           /\ produced' = IF c.ret THEN <<>> ELSE produced
    /\ UNCHANGED <<result, current_time_ms, next_sample, deliveries_left,
                   livevars,
                   pipevars, dictvars, biasvars>>

RingPause ==
    /\ ring_op.op # "none"
    /\ LET c == pause(RingState)
       IN  /\ SetRing(c.r)
           /\ ring_op' = [op |-> "pause", ret |-> c.ret, arg |-> 0,
                          before |-> RingState, old |-> <<>>]
    /\ UNCHANGED <<result, current_time_ms, produced, next_sample,
                   deliveries_left, livevars,
                   pipevars, dictvars, biasvars>>

RingClear ==
    /\ ring_op.op # "none"
    /\ LET c == clear(RingState)
       IN  /\ SetRing(c.r)
           /\ ring_op' = [op |-> "clear", ret |-> c.ret, arg |-> 0,
                          before |-> RingState, old |-> <<>>]
           /\ produced' = IF c.ret THEN <<>> ELSE produced
    /\ UNCHANGED <<result, current_time_ms, next_sample, deliveries_left,
                   livevars,
                   pipevars, dictvars, biasvars>>

\* the device delivers s samples (it exists once init() opened it)
RingCallback ==
    /\ m_dev_id_in
    /\ deliveries_left > 0
    /\ \E s \in DeliverySizes(AudioSize(RingState)) :
          LET stream == [i \in 1..s |-> next_sample + i - 1]
          IN  /\ SetRing(callback(RingState, stream))
              /\ ring_op' = [op |-> "callback", ret |-> m_running, arg |-> s,
                             before |-> RingState, old |-> <<>>]
              /\ produced' = IF m_running THEN produced \o stream ELSE produced
              /\ next_sample' = next_sample + s
    /\ deliveries_left' = deliveries_left - 1
    /\ UNCHANGED <<result, current_time_ms, livevars,
                   pipevars, dictvars, biasvars>>

RingGet ==
    /\ ring_op.op # "none"
    /\ \E ms \in GetWindows, old \in OldVectors :
          LET g == get(RingState, ms, old, 0)
          IN  /\ result' = g.result
              /\ current_time_ms' = g.time
              /\ ring_op' = [op |-> "get", ret |-> g.done, arg |-> ms,
                             before |-> RingState, old |-> old]
    /\ UNCHANGED <<m_dev_id_in, m_running, m_audio, m_audio_pos, m_audio_len,
                   m_total_samples, produced, next_sample, deliveries_left,
                   livevars,
                   pipevars, dictvars, biasvars>>

RingNext ==
    \/ RingInitCall
    \/ RingResume
    \/ RingPause
    \/ RingClear
    \/ RingCallback
    \/ RingGet

RingSpec == RingInit /\ [][RingNext]_vars

\* ===================================================== dictionary loader
\* reload_dictionary_if_needed of main().  Texts are sequences of characters;
\* the tokenizer is the environment's.

DictState ==
    [cache |-> dictionary_cache, token_seqs |-> dictionary_token_seqs,
     entry_texts |-> dictionary_entry_texts,
     first_tokens |-> dictionary_first_tokens,
     first_token_ids |-> dictionary_first_token_ids,
     last_reload |-> last_dictionary_reload,
     last_write_time |-> last_dictionary_write_time,
     entries_raw |-> last_dictionary_entries_raw,
     total_tokens |-> last_dictionary_total_tokens,
     error |-> last_dictionary_error]

SetDict(d) ==
    /\ dictionary_cache' = d.cache
    /\ dictionary_token_seqs' = d.token_seqs
    /\ dictionary_entry_texts' = d.entry_texts
    /\ dictionary_first_tokens' = d.first_tokens
    /\ dictionary_first_token_ids' = d.first_token_ids
    /\ last_dictionary_reload' = d.last_reload
    /\ last_dictionary_write_time' = d.last_write_time
    /\ last_dictionary_entries_raw' = d.entries_raw
    /\ last_dictionary_total_tokens' = d.total_tokens
    /\ last_dictionary_error' = d.error

IsSpace(c) == c \in {" ", "\n"}

\* the first loop of split_dictionary_entries: the words between whitespace
RECURSIVE SplitWords(_, _, _)
SplitWords(raw, cur, out) ==
    IF raw = <<>>
    THEN IF cur = <<>> THEN out ELSE Append(out, cur)
    ELSE IF IsSpace(Head(raw))
    THEN SplitWords(Tail(raw), <<>>,
                    IF cur = <<>> THEN out ELSE Append(out, cur))
    ELSE SplitWords(Tail(raw), Append(cur, Head(raw)), out)

\* the second loop: first occurrences only, in order
RECURSIVE Unique(_, _)
Unique(words, uniq) ==
    IF words = <<>> THEN uniq
    ELSE Unique(Tail(words),
                IF \E k \in DOMAIN uniq : uniq[k] = Head(words)
                THEN uniq ELSE Append(uniq, Head(words)))

split_dictionary_entries(raw) == Unique(SplitWords(raw, <<>>, <<>>), <<>>)

\* the texts tokenized for an entry: itself and, unless it begins with a
\* space, itself after a space
Variants(entry) ==
    IF Head(entry) # " " THEN <<entry, <<" ">> \o entry>> ELSE <<entry>>

\* the tokenizer of the model: one token per character
TokenOf(c) == IF c = "a" THEN 1 ELSE IF c = "b" THEN 2 ELSE 3

Tokenize(text) == [i \in 1..Len(text) |-> TokenOf(text[i])]

\* mutant: the first token is recorded in the ordered list every time
AddVariantRepeatingFirst(acc, entry, text, fails) ==
    IF text \in fails THEN acc
    ELSE LET seq == Tokenize(text)
             first == Head(seq)
         IN  [acc EXCEPT
                 !.total_tokens = acc.total_tokens + Len(seq),
                 !.first_seen = acc.first_seen \cup {first},
                 !.first_tokens = Append(acc.first_tokens, first),
                 !.first_token_ids = acc.first_token_ids \cup {first},
                 !.entry_texts = Append(acc.entry_texts, entry),
                 !.token_seqs = Append(acc.token_seqs, seq)]

\* the body of the inner loop for one variant text of `entry`; `fails` are
\* the texts for which whisper_token_count or whisper_tokenize return <= 0
AddVariant(acc, entry, text, fails) ==
    IF text \in fails THEN acc
    ELSE LET seq == Tokenize(text)
             first == Head(seq)
             fresh == first \notin acc.first_seen
         IN  [acc EXCEPT
                 !.total_tokens = acc.total_tokens + Len(seq),
                 !.first_seen = acc.first_seen \cup {first},
                 !.first_tokens = IF fresh THEN Append(acc.first_tokens, first)
                                  ELSE acc.first_tokens,
                 !.first_token_ids = IF fresh
                                     THEN acc.first_token_ids \cup {first}
                                     ELSE acc.first_token_ids,
                 !.entry_texts = Append(acc.entry_texts, entry),
                 !.token_seqs = Append(acc.token_seqs, seq)]

RECURSIVE AddVariants(_, _, _, _)
AddVariants(acc, entry, texts, fails) ==
    IF texts = <<>> THEN acc
    ELSE AddVariants(AddVariant(acc, entry, Head(texts), fails), entry,
                     Tail(texts), fails)

\* the loop over the entries
RECURSIVE AddEntries(_, _, _)
AddEntries(acc, entries, fails) ==
    IF entries = <<>> THEN acc
    ELSE AddEntries(AddVariants(acc, Head(entries), Variants(Head(entries)),
                                fails),
                    Tail(entries), fails)

\* the state every error path leaves
DictCleared(d, error) ==
    [d EXCEPT !.error = error, !.entries_raw = 0, !.total_tokens = 0,
              !.cache = <<>>, !.token_seqs = <<>>, !.entry_texts = <<>>,
              !.first_tokens = <<>>, !.first_token_ids = {}]

\* the state a successful read of the file leaves
DictLoaded(d, file, fails) ==
    LET entries == split_dictionary_entries(file.content)
        acc == AddEntries([total_tokens |-> 0, first_seen |-> {},
                           first_tokens |-> <<>>, first_token_ids |-> {},
                           entry_texts |-> <<>>, token_seqs |-> <<>>],
                          entries, fails)
    IN  [d EXCEPT !.cache = file.content,
                  !.last_write_time = file.mtime,
                  !.entries_raw = Len(entries),
                  !.error = "",
                  !.token_seqs = acc.token_seqs,
                  !.entry_texts = acc.entry_texts,
                  !.first_tokens = acc.first_tokens,
                  !.first_token_ids = acc.first_token_ids,
                  !.total_tokens = acc.total_tokens]

\* the dictionary event emit_dictionary_event writes for state d
DictEvent(d, attempted, reloaded) ==
    [attempted |-> attempted, reloaded |-> reloaded, ok |-> d.error = "",
     error |-> d.error, dict_entries_raw |-> d.entries_raw,
     dict_entries |-> Len(d.token_seqs),
     dict_first_tokens |-> Len(d.first_tokens),
     dict_total_tokens |-> d.total_tokens,
     dict_cache_bytes |-> Len(d.cache)]

\* mutant: the poll interval is ignored
ShouldReloadAlways(force, elapsed_ms) == TRUE

\* should_reload
ShouldReload(force, elapsed_ms) == force \/ elapsed_ms >= DictPollMs

\* mutant: an unchanged mtime does not stop the reload
NoOpNever(d, force, file) == FALSE

\* the test for the no-op path: not forced and the mtime not changed
NoOp(d, force, file) == ~force /\ ~(file.mtime # d.last_write_time)

\* reload_dictionary_if_needed(.., force) at steady-clock time `now`, with
\* elapsed_ms as computed from last_dictionary_reload: the new state, the
\* events written, and whether the file was examined
reload_dictionary_if_needed(d, path, force, now, elapsed_ms, file, fails) ==
    IF path = ""
    THEN LET c == DictCleared(d, "dictionary_file not set")
         IN  [d |-> c, ev |-> <<DictEvent(c, TRUE, TRUE)>>, examined |-> FALSE]
    ELSE IF ~ShouldReload(force, elapsed_ms)
    THEN [d |-> d, ev |-> <<>>, examined |-> FALSE]
    ELSE LET d1 == [d EXCEPT !.last_reload = now]
         IN  IF ~file.present
             THEN LET c == DictCleared(d1, "No such file or directory")
                  IN  [d |-> c, ev |-> <<DictEvent(c, TRUE, TRUE)>>,
                       examined |-> TRUE]
             ELSE IF NoOp(d1, force, file)
             THEN [d |-> d1, ev |-> <<DictEvent(d1, TRUE, FALSE)>>,
                   examined |-> TRUE]
             ELSE IF ~file.readable
             THEN LET c == DictCleared(d1, "failed to open dictionary_file")
                  IN  [d |-> c, ev |-> <<DictEvent(c, TRUE, TRUE)>>,
                       examined |-> TRUE]
             ELSE LET l == DictLoaded(d1, file, fails)
                  IN  [d |-> l, ev |-> <<DictEvent(l, TRUE, TRUE)>>,
                       examined |-> TRUE]

\* the texts of the dictionary file the environment writes
DictContents ==
    {<<>>,
     <<"a", " ", "b">>,
     <<"a", "b", "\n", " ", "a", "\n", "a", "b">>}

\* the texts the tokenizer may refuse during one reload
FailSets == {{}, {<<" ", "a">>}, {<<"a">>, <<" ", "a">>, <<"b">>}}

\* the files main() may find at startup
InitialFiles ==
    {[present |-> FALSE, readable |-> FALSE, mtime |-> 0, content |-> <<>>],
     [present |-> TRUE, readable |-> TRUE, mtime |-> 1,
      content |-> <<"a", " ", "b">>]}

\* what one change of the file by the environment may leave
ChangedFiles(f) ==
    {[present |-> TRUE, readable |-> TRUE, mtime |-> f.mtime + 1, content |-> c] :
        c \in DictContents}
    \cup {[present |-> TRUE, readable |-> TRUE, mtime |-> f.mtime,
           content |-> <<"b">>],
          [f EXCEPT !.present = FALSE],
          [f EXCEPT !.present = TRUE, !.readable = FALSE]}

\* the loader as declared in main(), before the forced call at startup
DictInit ==
    /\ PipeIdle
    /\ CbIdle
    /\ DecodeIdle
    /\ RingIdle
    /\ DictDeclared
    /\ dictionary_path \in {"", "dict.txt"}
    /\ dict_pc = "start"
    /\ dict_op = [op |-> "none"]
    /\ clock = 0
    /\ dict_file \in InitialFiles
    /\ file_changes_left = MaxFileChanges

\* one call: the state, the history record, and the event written
DictCall(force, elapsed_ms, fails) ==
    LET c == reload_dictionary_if_needed(DictState, dictionary_path, force,
                                         clock, elapsed_ms, dict_file, fails)
    IN  /\ SetDict(c.d)
        /\ dict_op' = [op |-> "reload", force |-> force,
                       elapsed |-> elapsed_ms, before |-> DictState,
                       ev |-> c.ev, examined |-> c.examined]

\* reload_dictionary_if_needed(-1, -1, false, true) of main(): the time since
\* time_point::min() overflows, so elapsed_ms is any value
DictStartup ==
    /\ dict_pc = "start"
    /\ \E elapsed_ms \in {-1, DictPollMs}, fails \in FailSets :
          DictCall(TRUE, elapsed_ms, fails)
    /\ dict_pc' = "run"
    /\ UNCHANGED <<dictionary_path, clock, dict_file, file_changes_left,
                   pipevars, ringvars, biasvars>>

\* the call emit_transcription makes before each decode
DictReload ==
    /\ dict_pc = "run"
    /\ \E fails \in FailSets :
          DictCall(FALSE, clock - last_dictionary_reload, fails)
    /\ UNCHANGED <<dictionary_path, dict_pc, clock, dict_file,
                   file_changes_left, pipevars, ringvars, biasvars>>

\* the instants (ms) at which the run looks at the clock: the ends of the
\* poll intervals and the millisecond before each
ClockInstants ==
    {k * DictPollMs + e : k \in 0..MaxPolls, e \in {0, DictPollMs - 1}}

\* time passes
DictTick ==
    /\ dict_pc = "run"
    /\ clock' \in {c \in ClockInstants : c > clock}
    /\ dict_op' = [op |-> "none"]
    /\ UNCHANGED <<dictionary_path, dictstate, dict_pc, dict_file,
                   file_changes_left, pipevars, ringvars, biasvars>>

\* the user edits, removes or protects the file
DictFileChange ==
    /\ dict_pc = "run"
    /\ file_changes_left > 0
    /\ file_changes_left' = file_changes_left - 1
    /\ dict_file' \in ChangedFiles(dict_file) \ {dict_file}
    /\ dict_op' = [op |-> "none"]
    /\ UNCHANGED <<dictionary_path, dictstate, dict_pc, clock,
                   pipevars, ringvars, biasvars>>

DictNext ==
    \/ DictStartup
    \/ DictReload
    \/ DictTick
    \/ DictFileChange

DictSpec == DictInit /\ [][DictNext]_vars

\* ================================================== logits filter callback
\* whisper_logits_filter_cb.  A logit is a record: finite with a value in
\* hundredths, or not finite (an infinity or a NaN).  The logits array is a
\* function on 0..n_vocab-1 followed by the memory behind the array.

Fin(n) == [fin |-> TRUE, v |-> n]

NonFin == [fin |-> FALSE, v |-> 0]

\* mutant: the timestamp/control range is biased like any other id
add_bias_any_range(logits, n_vocab, token_beg, token_id, bias) ==
    IF token_id < 0 \/ token_id >= n_vocab THEN logits
    ELSE IF ~logits[token_id].fin THEN logits
    ELSE [logits EXCEPT ![token_id] = Fin(@.v + bias)]

\* the lambda add_bias
add_bias(logits, n_vocab, token_beg, token_id, bias) ==
    IF token_id < 0 \/ token_id >= n_vocab THEN logits
    ELSE IF token_beg > 0 /\ token_id >= token_beg THEN logits
    ELSE IF ~logits[token_id].fin THEN logits
    ELSE [logits EXCEPT ![token_id] = Fin(@.v + bias)]

\* mutant: the shortest match is taken
MatchLengthShortest(tokens, seq, l) ==
    LET m == {k \in 1..l :
                 \A j \in 0..(k - 1) : tokens[Len(tokens) - k + j + 1] = seq[j + 1]}
    IN  IF m = {} THEN 0 ELSE CHOOSE k \in m : \A k2 \in m : k <= k2

\* the loop over l, from l down to 1: the first l for which the last l
\* tokens of the prefix are the first l tokens of seq, or 0
RECURSIVE MatchLength(_, _, _)
MatchLength(tokens, seq, l) ==
    IF l < 1 THEN 0
    ELSE IF \A j \in 0..(l - 1) : tokens[Len(tokens) - l + j + 1] = seq[j + 1]
    THEN l
    ELSE MatchLength(tokens, seq, l - 1)

\* boosted_cont[next_id] += bias on the unordered_map
AddBoosted(boosted_cont, next_id, bias) ==
    IF next_id \in DOMAIN boosted_cont
    THEN [boosted_cont EXCEPT ![next_id] = @ + bias]
    ELSE [i \in DOMAIN boosted_cont \cup {next_id} |->
             IF i = next_id THEN bias ELSE boosted_cont[i]]

\* the loop over the dictionary sequences: continuation boosts
RECURSIVE ContinuationBoosts(_, _, _, _, _, _)
ContinuationBoosts(acc, seqs, tokens, n_vocab, token_beg, bias) ==
    IF seqs = <<>> THEN acc
    ELSE LET seq == Head(seqs)
             l == IF Len(seq) < 2 THEN 0
                  ELSE MatchLength(tokens, seq, Min(Len(tokens), Len(seq) - 1))
             next_id == seq[l + 1]
             step ==
                 IF l = 0 THEN acc
                 ELSE [logits |-> add_bias(acc.logits, n_vocab, token_beg,
                                           next_id, bias),
                       boosted_cont |-> AddBoosted(acc.boosted_cont, next_id,
                                                   bias)]
         IN  ContinuationBoosts(step, Tail(seqs), tokens, n_vocab, token_beg,
                                bias)

\* mutant: only the first of the first tokens is boosted
FirstBoostsHeadOnly(logits, first_tokens, n_vocab, token_beg, bias) ==
    IF first_tokens = <<>> THEN logits
    ELSE add_bias(logits, n_vocab, token_beg, Head(first_tokens), bias)

\* the loop over the dictionary's first tokens
RECURSIVE FirstBoosts(_, _, _, _, _)
FirstBoosts(logits, first_tokens, n_vocab, token_beg, bias) ==
    IF first_tokens = <<>> THEN logits
    ELSE FirstBoosts(add_bias(logits, n_vocab, token_beg, Head(first_tokens),
                              bias),
                     Tail(first_tokens), n_vocab, token_beg, bias)

\* the ids of the finite logits
FiniteIds(logits, n_vocab) == {i \in 0..(n_vocab - 1) : logits[i].fin}

\* ids by decreasing logit; std::sort leaves the order of equal logits open,
\* here the smaller id comes first
RECURSIVE ByLogit(_, _)
ByLogit(logits, ids) ==
    IF ids = {} THEN <<>>
    ELSE LET best == CHOOSE i \in ids :
                        \A j \in ids : \/ logits[i].v > logits[j].v
                                       \/ (logits[i].v = logits[j].v /\ i <= j)
         IN  <<best>> \o ByLogit(logits, ids \ {best})

\* mutant: once the heap is full the remaining logits are not looked at
RECURSIVE HeapScanNoReplace(_, _, _, _, _)
HeapScanNoReplace(logits, n_vocab, top_k, i, kept) ==
    IF i >= n_vocab THEN kept
    ELSE IF ~logits[i].fin \/ Cardinality(kept) >= top_k
    THEN HeapScanNoReplace(logits, n_vocab, top_k, i + 1, kept)
    ELSE HeapScanNoReplace(logits, n_vocab, top_k, i + 1, kept \cup {i})

\* the scan that fills the vector top, from id i on, kept being the ids held:
\* the first top_k finite logits are pushed; from then on top.front() is a
\* smallest logit held, and a logit greater than it replaces it.  Of equal
\* smallest logits the heap of one or two items has the older at the front.
RECURSIVE HeapScan(_, _, _, _, _)
HeapScan(logits, n_vocab, top_k, i, kept) ==
    IF i >= n_vocab THEN kept
    ELSE IF ~logits[i].fin
    THEN HeapScan(logits, n_vocab, top_k, i + 1, kept)
    ELSE IF Cardinality(kept) < top_k
    THEN HeapScan(logits, n_vocab, top_k, i + 1, kept \cup {i})
    ELSE LET front == CHOOSE m \in kept :
                         \A j \in kept : \/ logits[m].v < logits[j].v
                                         \/ (logits[m].v = logits[j].v /\ m <= j)
         IN  IF logits[i].v <= logits[front].v
             THEN HeapScan(logits, n_vocab, top_k, i + 1, kept)
             ELSE HeapScan(logits, n_vocab, top_k, i + 1,
                           (kept \ {front}) \cup {i})

\* the vector top after the scan and the std::sort by decreasing logit
Top(logits, n_vocab, top_k) ==
    ByLogit(logits, HeapScan(logits, n_vocab, top_k, 0, {}))

\* what emit_item appends for tid, unless the array is full or holds tid
emit_item(boosted, boosted_k, logits, tid, kind, bias, in_top) ==
    IF boosted_k <= 0 \/ Len(boosted) >= boosted_k
       \/ (\E e \in DOMAIN boosted : boosted[e].id = tid)
    THEN boosted
    ELSE LET logit_after == logits[tid]
             logit_before == IF logit_after.fin
                             THEN Fin(logit_after.v - bias) ELSE logit_after
         IN  Append(boosted, [id |-> tid, kind |-> kind, bias |-> bias,
                              in_top |-> in_top,
                              logit_before |-> logit_before,
                              logit_after |-> logit_after])

\* the first loop of the boosted array: dictionary first tokens in the top
RECURSIVE BoostedFirst(_, _, _, _, _, _)
BoostedFirst(boosted, boosted_k, logits, top, first_token_ids, bias) ==
    IF top = <<>> THEN boosted
    ELSE BoostedFirst(IF Head(top) \in first_token_ids
                      THEN emit_item(boosted, boosted_k, logits, Head(top),
                                     "first", bias, TRUE)
                      ELSE boosted,
                      boosted_k, logits, Tail(top), first_token_ids, bias)

\* the second loop: continuation boosts in the top
RECURSIVE BoostedContTop(_, _, _, _, _)
BoostedContTop(boosted, boosted_k, logits, top, boosted_cont) ==
    IF top = <<>> THEN boosted
    ELSE BoostedContTop(IF Head(top) \in DOMAIN boosted_cont
                        THEN emit_item(boosted, boosted_k, logits, Head(top),
                                       "continuation",
                                       boosted_cont[Head(top)], TRUE)
                        ELSE boosted,
                        boosted_k, logits, Tail(top), boosted_cont)

\* the third loop: the remaining continuation boosts, here by increasing id
RECURSIVE BoostedContRest(_, _, _, _, _)
BoostedContRest(boosted, boosted_k, logits, ids, boosted_cont) ==
    IF ids = {} THEN boosted
    ELSE LET tid == CHOOSE i \in ids : \A j \in ids : i <= j
         IN  BoostedContRest(emit_item(boosted, boosted_k, logits, tid,
                                       "continuation", boosted_cont[tid],
                                       FALSE),
                             boosted_k, logits, ids \ {tid}, boosted_cont)

\* the boosted array of the packet
BoostedArray(b, dict, logits, top, boosted_cont) ==
    LET boosted_k == Max(0, b.logits_boosted_k)
        first == IF b.dict_first_token_ids /\ b.bias_first_logit # 0
                 THEN BoostedFirst(<<>>, boosted_k, logits, top,
                                   dict.first_token_ids, b.bias_first_logit)
                 ELSE <<>>
        cont == BoostedContTop(first, boosted_k, logits, top, boosted_cont)
    IN  IF boosted_k > 0
        THEN BoostedContRest(cont, boosted_k, logits, DOMAIN boosted_cont,
                             boosted_cont)
        ELSE <<>>

\* whisper_logits_filter_cb(ctx, state, tokens, n_tokens, logits, &b), where
\* dict is what the pointers of b point to at the time of the call: the
\* logits on return and the packets written
whisper_logits_filter_cb(b, dict, n_vocab, token_beg, tokens, logits) ==
    IF ~b.enabled \/ n_vocab <= 0
    THEN [logits |-> logits, packets |-> <<>>]
    ELSE LET a == IF b.dict_token_seqs
                  THEN ContinuationBoosts(
                           [logits |-> logits, boosted_cont |-> <<>>],
                           dict.token_seqs, tokens, n_vocab, token_beg,
                           b.bias_continuation_logit)
                  ELSE [logits |-> logits, boosted_cont |-> <<>>]
             first == DOMAIN a.boosted_cont = {} /\ b.dict_first_tokens
             biased == IF first
                       THEN FirstBoosts(a.logits, dict.first_tokens, n_vocab,
                                        token_beg, b.bias_first_logit)
                       ELSE a.logits
             top == Top(biased, n_vocab, Max(1, b.logits_top_k))
             packet ==
                 [event |-> "logits", segment_index |-> b.segment_index,
                  partial_seq |-> b.partial_seq, final |-> b.is_final,
                  decode_step |-> Len(tokens),
                  dict_entries |-> b.dict_entries,
                  dict_first_tokens |-> b.dict_first_tokens_total,
                  boosted_first_total |->
                      IF first THEN Len(dict.first_tokens) ELSE 0,
                  boosted_cont_count |-> Cardinality(DOMAIN a.boosted_cont),
                  boosted |-> BoostedArray(b, dict, biased, top,
                                           a.boosted_cont),
                  top |-> [i \in DOMAIN top |->
                              [id |-> top[i], logit |-> biased[top[i]]]]]
         IN  IF ~(b.emit_stdout_packets \/ b.writer)
                \/ FiniteIds(biased, n_vocab) = {}
             THEN [logits |-> biased, packets |-> <<>>]
             ELSE [logits |-> biased,
                   packets |-> IF b.emit_stdout_packets THEN <<packet>>
                               ELSE <<>>]

\* the options of main() that the decoder reads, as parse_args leaves them
\* without arguments
BiasDefaults ==
    [bias_decoding |-> FALSE, send_prompt |-> TRUE, bias_first_logit |-> 35,
     bias_continuation_logit |-> 85, beam_size |-> 0, logits_top_k |-> 50,
     logits_boosted_k |-> 24, log |-> FALSE, logits_writer |-> FALSE]

\* mutant: the triple of the decode is not copied into the context
BuildBctxWithoutTriple(p, args, d) ==
    [BctxDeclared EXCEPT
        !.dict_token_seqs = d.token_seqs # <<>>,
        !.dict_first_tokens = d.first_tokens # <<>>,
        !.dict_first_token_ids = d.first_token_ids # {},
        !.dict_entries = d.entries_raw,
        !.dict_first_tokens_total = Len(d.first_tokens),
        !.enabled = TRUE,
        !.bias_first_logit = p.bias_first_logit,
        !.bias_continuation_logit = p.bias_continuation_logit,
        !.logits_top_k = p.logits_top_k,
        !.logits_boosted_k = p.logits_boosted_k,
        !.writer = p.logits_writer,
        !.emit_stdout_packets = p.log]

\* the bias_decode_context emit_transcription fills in for dictionary state d
BuildBctx(p, args, d) ==
    [BctxDeclared EXCEPT
        !.segment_index = args.segment_idx,
        !.partial_seq = args.partial_seq,
        !.is_final = args.is_final,
        !.dict_token_seqs = d.token_seqs # <<>>,
        !.dict_first_tokens = d.first_tokens # <<>>,
        !.dict_first_token_ids = d.first_token_ids # {},
        !.dict_entries = d.entries_raw,
        !.dict_first_tokens_total = Len(d.first_tokens),
        !.enabled = TRUE,
        !.bias_first_logit = p.bias_first_logit,
        !.bias_continuation_logit = p.bias_continuation_logit,
        !.logits_top_k = p.logits_top_k,
        !.logits_boosted_k = p.logits_boosted_k,
        !.writer = p.logits_writer,
        !.emit_stdout_packets = p.log]

\* the containers a decode context points to
Indices(d) ==
    [token_seqs |-> d.token_seqs, first_tokens |-> d.first_tokens,
     first_token_ids |-> d.first_token_ids]

\* the longest prefix the callback is tried with
MaxPrefix == 2

\* the cells of memory modelled: the logits array and what lies behind it
Cells == 0..4

\* the token ids of the model's tokenizer
TokenIds == {TokenOf("a"), TokenOf("b"), TokenOf(" ")}

RECURSIVE Prefixes(_)
Prefixes(n) ==
    IF n = 0 THEN {<<>>}
    ELSE Prefixes(n - 1)
         \cup {Append(t, id) : t \in {u \in Prefixes(n - 1) : Len(u) = n - 1},
                               id \in TokenIds}

\* the logits arrays the decoder hands over
LogitArrays ==
    {[i \in Cells |-> IF i = 0 THEN Fin(10) ELSE IF i = 4 THEN Fin(20)
                      ELSE f[i]] :
        f \in [TokenIds -> {Fin(0), Fin(100), NonFin}]}

\* the option sets the callback is tried with
CallbackParams ==
    LET p == [BiasDefaults EXCEPT !.bias_decoding = TRUE, !.log = TRUE]
    IN  {p,
         [p EXCEPT !.logits_top_k = 1],
         [p EXCEPT !.logits_top_k = 2],
         [p EXCEPT !.logits_boosted_k = 0],
         [p EXCEPT !.bias_first_logit = 0],
         [p EXCEPT !.log = FALSE]}

\* the dictionaries a reload can have left; the entry "aab" has a sequence
\* that matches a prefix at two lengths
LoadedDictionaries ==
    {DictLoaded(DictState,
                [present |-> TRUE, readable |-> TRUE, mtime |-> 1,
                 content |-> c], fails) :
        c \in DictContents \cup {<<"a", "a", "b">>}, fails \in FailSets}

\* a decode is about to invoke the callback
LogitsInit ==
    /\ PipeIdle
    /\ RingIdle
    /\ DictIdle
    /\ DecodeIdle
    /\ cb_pc = "ready"
    /\ cb_out = [op |-> "none"]
    /\ \E p \in CallbackParams, d \in LoadedDictionaries,
          n_vocab \in {3, 5}, token_beg \in {0, 2, 4},
          tokens \in Prefixes(MaxPrefix), logits \in LogitArrays :
          cb_in = [bctx |-> BuildBctx(p, [segment_idx |-> 0,
                                          partial_seq |-> 1,
                                          is_final |-> FALSE], d),
                   dict |-> Indices(d), n_vocab |-> n_vocab,
                   token_beg |-> token_beg, tokens |-> tokens,
                   logits |-> logits]

\* whisper_full invokes the callback
CbInvoke ==
    /\ cb_pc = "ready"
    /\ cb_pc' = "done"
    /\ cb_out' = whisper_logits_filter_cb(cb_in.bctx, cb_in.dict,
                                          cb_in.n_vocab, cb_in.token_beg,
                                          cb_in.tokens, cb_in.logits)
    /\ UNCHANGED <<cb_in, decvars, pipevars, ringvars, dictvars>>

LogitsNext == CbInvoke

LogitsSpec == LogitsInit /\ [][LogitsNext]_vars

\* ================================================================ decoder
\* emit_transcription of main(), with the dictionary loader, one step per
\* statement group: the reload, the building of the prompt and the decode
\* context, the callbacks whisper_full makes, and its return.

\* calls of emit_transcription in one run
MaxDecodes == 2

\* callbacks whisper_full makes during one decode at most
MaxSteps == 2

\* changes of the dictionary file during one run of the decoder
MaxEdits == 1

\* beam_search.beam_size of whisper_full_default_params
DefaultBeam == 5

\* kWhisperMaxDecoders
WhisperMaxDecoders == 8

\* std::clamp
Clamp(x, lo, hi) == IF x < lo THEN lo ELSE IF x > hi THEN hi ELSE x

RequestedBeam(p) == IF p.beam_size > 0 THEN p.beam_size ELSE DefaultBeam

\* mutant: the warning is not remembered
WarnsClampEveryTime(requested, clamped, warned) == requested # clamped

\* the test for the clamp warning
WarnsClamp(requested, clamped, warned) == requested # clamped /\ ~warned

\* mutant: the prompt is never passed
InitialPromptNone(p, d) == <<>>

\* wparams.initial_prompt: no element for nullptr, else the text
InitialPrompt(p, d) ==
    IF p.send_prompt /\ d.cache # <<>> THEN <<d.cache>> ELSE <<>>

\* the option sets the decoder is run with
DecodeParams ==
    LET b == [BiasDefaults EXCEPT !.bias_decoding = TRUE, !.log = TRUE]
    IN  {BiasDefaults,
         b,
         [b EXCEPT !.beam_size = 9],
         [b EXCEPT !.beam_size = 1, !.send_prompt = FALSE, !.log = FALSE]}

\* the arguments of the n-th call: a partial and the final of an utterance,
\* then the partials of the next
DecodeArgs(n) ==
    IF n = 1 THEN [segment_idx |-> 0, partial_seq |-> 0, is_final |-> FALSE]
    ELSE IF n = 2
    THEN [segment_idx |-> 0, partial_seq |-> 1, is_final |-> TRUE]
    ELSE [segment_idx |-> 1, partial_seq |-> n - 3, is_final |-> FALSE]

\* what the acoustic model hands to the callback: a vocabulary of five
\* ids with the control range from 4 on, the tokens it decodes, the logits
Decoder ==
    [n_vocab |-> 5, token_beg |-> 4,
     tokens |-> <<TokenOf("a"), TokenOf("b"), TokenOf("a")>>,
     logits |-> [i \in Cells |-> Fin(10 * i)]]

\* the texts the tokenizer may refuse during a reload of the decoder
DecodeFailSets == {{}, {<<" ", "a">>}}

\* a line of stdout: the event (a dictionary event where e names none),
\* its triple, and as history the number of the decode that wrote it
Line(e, triple, n) ==
    [i \in DOMAIN e \cup {"event", "segment_index", "partial_seq", "final",
                          "decode"}
        |-> IF i = "segment_index" THEN triple.segment_idx
            ELSE IF i = "partial_seq" THEN triple.partial_seq
            ELSE IF i = "final" THEN triple.is_final
            ELSE IF i = "decode" THEN n
            ELSE IF i \in DOMAIN e THEN e[i]
            ELSE "dictionary"]

Lines(evs, triple, n) == [k \in DOMAIN evs |-> Line(evs[k], triple, n)]

\* main() before the forced reload at startup
DecodeInit ==
    /\ PipeIdle
    /\ RingIdle
    /\ CbIdle
    /\ DictDeclared
    /\ dictionary_path \in {"", "dict.txt"}
    /\ dict_pc = "start"
    /\ dict_op = [op |-> "none"]
    /\ clock = 0
    /\ dict_file \in InitialFiles
    /\ file_changes_left = MaxEdits
    /\ dec_pc = "start"
    /\ dec_params \in DecodeParams
    /\ dec_args = [op |-> "none"]
    /\ bctx = BctxDeclared
    /\ initial_prompt = <<>>
    /\ beam_size = DefaultBeam
    /\ warned_beam_size_clamp = FALSE
    /\ stdout = <<>>
    /\ stderr = <<>>
    /\ n_tokens = 0
    /\ decode_no = 0
    /\ dec_call = [op |-> "none"]
    /\ built_from = [op |-> "none"]

\* reload_dictionary_if_needed(-1, -1, false, true) of main()
DecodeStartup ==
    /\ dec_pc = "start"
    /\ \E fails \in DecodeFailSets : DictCall(TRUE, DictPollMs, fails)
    /\ stdout' = stdout \o Lines(dict_op'.ev,
                                 [segment_idx |-> -1, partial_seq |-> -1,
                                  is_final |-> FALSE], 0)
    /\ dict_pc' = "run"
    /\ dec_pc' = "idle"
    /\ UNCHANGED <<dictionary_path, clock, dict_file, file_changes_left,
                   dec_params, dec_args, bctx, initial_prompt, beam_size,
                   warned_beam_size_clamp, stderr, n_tokens, decode_no,
                   dec_call, built_from, cbvars, pipevars, ringvars>>

\* emit_transcription up to and including its call of
\* reload_dictionary_if_needed(segment_idx, partial_seq, is_final, false)
DecodeEnter ==
    /\ dec_pc = "idle"
    /\ decode_no < MaxDecodes
    /\ \E fails \in DecodeFailSets :
          DictCall(FALSE, clock - last_dictionary_reload, fails)
    /\ dec_call' = [file |-> dict_file]
    /\ dec_args' = DecodeArgs(decode_no + 1)
    /\ stdout' = stdout \o Lines(dict_op'.ev, DecodeArgs(decode_no + 1),
                                 decode_no + 1)
    /\ decode_no' = decode_no + 1
    /\ dec_pc' = "reloaded"
    /\ UNCHANGED <<dictionary_path, dict_pc, clock, dict_file,
                   file_changes_left, dec_params, bctx, initial_prompt,
                   beam_size, warned_beam_size_clamp, stderr, n_tokens,
                   built_from, cbvars, pipevars, ringvars>>

\* the prompt, the decode context and the beam size, up to whisper_full
DecodeBuild ==
    LET requested_beam == RequestedBeam(dec_params)
        clamped_beam == Clamp(requested_beam, 2, WhisperMaxDecoders)
        warns == WarnsClamp(requested_beam, clamped_beam,
                            warned_beam_size_clamp)
    IN  /\ dec_pc = "reloaded"
        /\ dec_pc' = "decoding"
        /\ initial_prompt' = InitialPrompt(dec_params, DictState)
        /\ n_tokens' = 0
        /\ built_from' = Indices(DictState)
        /\ IF dec_params.bias_decoding
           THEN /\ bctx' = BuildBctx(dec_params, dec_args, DictState)
                /\ beam_size' = clamped_beam
                /\ warned_beam_size_clamp' = (warned_beam_size_clamp \/ warns)
                /\ stderr' = IF warns
                             THEN Append(stderr,
                                         [line |-> "clamping --beam-size",
                                          from |-> requested_beam,
                                          to |-> clamped_beam])
                             ELSE stderr
           ELSE /\ bctx' = BctxDeclared
                /\ beam_size' = DefaultBeam
                /\ UNCHANGED <<warned_beam_size_clamp, stderr>>
        /\ UNCHANGED <<dec_params, dec_args, stdout, decode_no, dec_call,
                       cbvars, pipevars, ringvars, dictvars>>

\* mutant: the dictionary is polled from the callback as well
DecodeCallbackReloading ==
    /\ dec_pc = "decoding"
    /\ dec_params.bias_decoding
    /\ n_tokens < MaxSteps
    /\ \E fails \in DecodeFailSets : DictCall(TRUE, DictPollMs, fails)
    /\ n_tokens' = n_tokens + 1
    /\ UNCHANGED <<dictionary_path, dict_pc, clock, dict_file,
                   file_changes_left, dec_pc, dec_params, dec_args, bctx,
                   initial_prompt, beam_size, warned_beam_size_clamp, stdout,
                   stderr, decode_no, dec_call, built_from, cbvars, pipevars,
                   ringvars>>

\* whisper_full invokes the registered callback with the tokens decoded so
\* far; the context's pointers are followed at the time of the call
DecodeCallback ==
    /\ dec_pc = "decoding"
    /\ dec_params.bias_decoding
    /\ n_tokens < MaxSteps
    /\ LET r == whisper_logits_filter_cb(bctx, Indices(DictState),
                                         Decoder.n_vocab, Decoder.token_beg,
                                         SubSeq(Decoder.tokens, 1, n_tokens),
                                         Decoder.logits)
       IN  stdout' = stdout \o [k \in DOMAIN r.packets |->
                                   Line(r.packets[k],
                                        [segment_idx |->
                                             r.packets[k].segment_index,
                                         partial_seq |->
                                             r.packets[k].partial_seq,
                                         is_final |-> r.packets[k].final],
                                        decode_no)]
    /\ n_tokens' = n_tokens + 1
    /\ UNCHANGED <<dec_pc, dec_params, dec_args, bctx, initial_prompt,
                   beam_size, warned_beam_size_clamp, stderr, decode_no,
                   dec_call, built_from, cbvars, pipevars, ringvars,
                   dictvars>>

\* whisper_full returns non-zero, after any number of callbacks
DecodeFail ==
    /\ dec_pc = "decoding"
    /\ dec_pc' = "idle"
    /\ stderr' = Append(stderr, [line |-> "whisper_full failed",
                                 from |-> dec_args.segment_idx,
                                 to |-> dec_args.segment_idx])
    /\ UNCHANGED <<dec_params, dec_args, bctx, initial_prompt, beam_size,
                   warned_beam_size_clamp, stdout, n_tokens, decode_no,
                   dec_call, built_from, cbvars, pipevars, ringvars,
                   dictvars>>

\* whisper_full returns 0 after its last callback: the segment event
DecodeSegment ==
    /\ dec_pc = "decoding"
    /\ dec_params.bias_decoding => n_tokens = MaxSteps
    /\ dec_pc' = "idle"
    /\ stdout' = Append(stdout, Line([event |-> "segment"], dec_args,
                                     decode_no))
    /\ UNCHANGED <<dec_params, dec_args, bctx, initial_prompt, beam_size,
                   warned_beam_size_clamp, stderr, n_tokens, decode_no,
                   dec_call, built_from, cbvars, pipevars, ringvars,
                   dictvars>>

\* time passes, up to the end of the poll interval or the millisecond
\* before it; the clock is read on entry only, and only with a path set
DecodeTick ==
    /\ dec_pc = "idle"
    /\ dictionary_path # ""
    /\ clock' \in {c \in {last_dictionary_reload + DictPollMs - 1,
                           last_dictionary_reload + DictPollMs} : c > clock}
    /\ UNCHANGED <<dictionary_path, dictstate, dict_pc, dict_op, dict_file,
                   file_changes_left, biasvars, pipevars, ringvars>>

\* what one change of the file may leave during a run of the decoder
DecodeEdits(f) ==
    {[present |-> TRUE, readable |-> TRUE, mtime |-> f.mtime + 1,
      content |-> <<"a", "b">>],
     [f EXCEPT !.present = FALSE]}

\* the user edits or removes the file named by the path, between decodes
\* or during one
DecodeFileChange ==
    /\ dec_pc \in {"idle", "decoding"}
    /\ dictionary_path # ""
    /\ file_changes_left > 0
    /\ file_changes_left' = file_changes_left - 1
    /\ dict_file' \in DecodeEdits(dict_file) \ {dict_file}
    /\ UNCHANGED <<dictionary_path, dictstate, dict_pc, dict_op, clock,
                   biasvars, pipevars, ringvars>>

DecodeNext ==
    \/ DecodeStartup
    \/ DecodeEnter
    \/ DecodeBuild
    \/ DecodeCallback
    \/ DecodeFail
    \/ DecodeSegment
    \/ DecodeTick
    \/ DecodeFileChange

DecodeSpec == DecodeInit /\ [][DecodeNext]_vars

\* =========================================================== capture loop
\* the live-capture loop of main(): the device's thread delivers samples to
\* the ring, the loop polls it with get and appends the samples it takes for
\* new to the staging deque.  Both sides hold the ring's mutex for the whole
\* of callback and get.  With a ring of RingLenMs the deque stays below one
\* VAD frame, so that process_pending_chunks returns at once.

\* the samples of a vector, pushed back one by one
RECURSIVE StageAppend(_, _)
StageAppend(q, samples) ==
    IF samples = <<>> THEN q
    ELSE StageAppend(StagePush(q, Head(samples), 1), Tail(samples))

\* mutant: the whole window is staged at every poll
NewSamplesWholeWindow(time, last, window) == Len(window)

\* new_samples: the samples the timeline says arrived since the last fetch,
\* at most the window
NewSamples(time, last, window) ==
    LET delta_ms == time - last
        new_samples == (delta_ms * SampleRate) \div 1000
    IN  IF new_samples > Len(window) THEN Len(window) ELSE new_samples

\* sizes (samples) of the deliveries of the device: whole milliseconds and
\* others
LiveDeliverySizes == {5, 12, SampleRate \div 1000, (SampleRate * RingLenMs) \div 1000}

\* the ring as constructed
RingDeclared ==
    [dev |-> FALSE, running |-> FALSE, audio |-> <<>>, pos |-> 0, len |-> 0,
     total |-> 0]

\* the state when the loop is entered: init() and resume() have succeeded
LiveInit ==
    /\ PipeIdle
    /\ DictIdle
    /\ CbIdle
    /\ DecodeIdle
    /\ LET r == resume(ring_init(RingDeclared, TRUE).r).r
       IN  /\ m_dev_id_in = r.dev
           /\ m_running = r.running
           /\ m_audio = r.audio
           /\ m_audio_pos = r.pos
           /\ m_audio_len = r.len
           /\ m_total_samples = r.total
    /\ result = <<>>
    /\ current_time_ms = 0
    /\ ring_op = [op |-> "none"]
    /\ produced = <<>>
    /\ next_sample = 1
    /\ deliveries_left = MaxDeliveries
    /\ fetch_window_ms \in {RingLenMs - 1, RingLenMs}
    /\ last_fetch_time_ms = 0
    /\ since_poll = 0

\* the device's thread delivers s samples; between two polls it delivers no
\* more than the fetch window holds
LiveCallback ==
    /\ pc = "capture"
    /\ deliveries_left > 0
    /\ \E s \in LiveDeliverySizes :
          LET stream == [i \in 1..s |-> next_sample + i - 1]
          IN  /\ since_poll + s <= (SampleRate * fetch_window_ms) \div 1000
              /\ SetRing(callback(RingState, stream))
              /\ next_sample' = next_sample + s
              /\ since_poll' = since_poll + s
    /\ deliveries_left' = deliveries_left - 1
    /\ UNCHANGED <<result, current_time_ms, ring_op, produced,
                   fetch_window_ms, last_fetch_time_ms, pipevars, dictvars,
                   biasvars>>

\* one iteration of the loop: get, the test of the timeline, the staging of
\* the newest new_samples of the window
LivePoll ==
    /\ pc = "capture"
    /\ LET g == get(RingState, fetch_window_ms, <<>>, 0)
           window_pcm == g.result
           audio_time_ms == g.time
           new_samples == NewSamples(audio_time_ms, last_fetch_time_ms,
                                     window_pcm)
           start == Len(window_pcm) - new_samples
       IN  /\ result' = window_pcm
           /\ current_time_ms' = audio_time_ms
           /\ IF audio_time_ms <= last_fetch_time_ms
              THEN UNCHANGED <<staging, staged_total, pending_samples,
                               last_fetch_time_ms>>
              ELSE /\ staging' = StageAppend(staging,
                                             SubSeq(window_pcm, start + 1,
                                                    Len(window_pcm)))
                   /\ staged_total' = staged_total + new_samples
                   /\ pending_samples' = pending_samples + new_samples
                   /\ pending_samples' < VadChunkSamples
                   /\ last_fetch_time_ms' = audio_time_ms
    /\ since_poll' = 0
    /\ UNCHANGED <<m_dev_id_in, m_running, m_audio, m_audio_pos, m_audio_len,
                   m_total_samples, ring_op, produced, next_sample,
                   deliveries_left, fetch_window_ms, dictvars, biasvars>>
    /\ UNCHANGED <<mode, pc, params, chunk_buffer, dropped, cut_end, bufvars,
                   segvars, events, vad_events, job_events, utt, resets,
                   skipped_tags, peak, last_flush, envvars>>

\* sdl_poll_events reports SDL_QUIT: flush_segment(true), which finds the
\* machine Inactive, and audio.pause()
LiveQuit ==
    /\ pc = "capture"
    /\ pc' = "exit"
    /\ SetRing(pause(RingState).r)
    /\ LET f == flush_segment(params, SegState, TRUE, TRUE, utt, "end")
       IN  /\ SetSeg(f.s)
           /\ SetBuffers(FlushBuffers(params, f.flush, segment_buf,
                                      pre_roll_buf))
           /\ events' = events \o Stamp(f.ev)
           /\ last_flush' = f.flush
    /\ UNCHANGED <<result, current_time_ms, ring_op, produced, next_sample,
                   deliveries_left, livevars, dictvars, biasvars>>
    /\ UNCHANGED <<mode, params, pending_samples, stagevars, vad_events,
                   job_events, utt, resets, skipped_tags, peak, envvars>>

LiveNext ==
    \/ LiveCallback
    \/ LivePoll
    \/ LiveQuit

LiveSpec == LiveInit /\ [][LiveNext]_vars

\* ------------------------------------------------------------------ claims

\* the positions of the partial / final events of utterance u in the output
PartialsOf(u) == {i \in DOMAIN events : events[i].utt = u /\ ~events[i].final}

FinalsOf(u) == {i \in DOMAIN events : events[i].utt = u /\ events[i].final}

\* C1 (as claimed): within every utterance the partial_seq values of the
\* final=false events are strictly increasing in emission order and the first
\* one is 0, whatever the frame probabilities and decode failures.
C1_PartialSeqFromZero ==
    \A i \in DOMAIN events :
        ~events[i].final =>
            LET before == {j \in PartialsOf(events[i].utt) : j < i}
            IN  IF before = {}
                THEN events[i].partial_seq = 0
                ELSE \A j \in before :
                        events[j].partial_seq < events[i].partial_seq

\* C2 (as claimed): an utterance whose flush keeps at least
\* min_segment_samples gets exactly one final=true event (given that the
\* final decode succeeds), and that event's partial_seq equals the number of
\* final=false events actually emitted for the utterance.
C2_FinalSeqCountsEmittedPartials ==
    /\ \A i \in DOMAIN events :
          events[i].final =>
              /\ events[i].partial_seq =
                     Cardinality({j \in PartialsOf(events[i].utt) : j < i})
              /\ FinalsOf(events[i].utt) = {i}
    /\ (last_flush.kind = "final" /\ last_flush.ok)
          => Cardinality(FinalsOf(last_flush.utt)) = 1

\* C3 (as claimed): an utterance that emitted at least one partial and is
\* flushed (by silence, by max length or at end of input) with a successful
\* final decode gets a final=true event with the partials' segment_index.
C3_PartialsEndWithFinal ==
    (/\ last_flush.kind \in {"discard", "final"}
     /\ last_flush.ok
     /\ PartialsOf(last_flush.utt) # {})
    => \E f \in FinalsOf(last_flush.utt) :
          \A i \in PartialsOf(last_flush.utt) :
              events[f].segment_index = events[i].segment_index

\* C3 (amended): the same, for the flushes that keep at least
\* min_segment_samples; a flush that keeps less discards the utterance
\* without a final even after partials.
C3_KeptFlushEndsWithFinal ==
    (/\ last_flush.kind \in {"discard", "final"}
     /\ last_flush.keep >= min_segment_samples(params)
     /\ last_flush.ok
     /\ PartialsOf(last_flush.utt) # {})
    => \E f \in FinalsOf(last_flush.utt) :
          \A i \in PartialsOf(last_flush.utt) :
              events[f].segment_index = events[i].segment_index

C3_Witness ==
    /\ last_flush.kind = "final"
    /\ last_flush.cause = "silence"
    /\ last_flush.ok
    /\ PartialsOf(last_flush.utt) # {}
    /\ FinalsOf(last_flush.utt) # {}

\* C4 (as claimed): events of two different utterances never carry the same
\* segment_index, and a later utterance's index is greater than every earlier
\* utterance's, also after a discard and across jobs.
C4_IndexIncreasesAcrossUtterances ==
    \A i, j \in DOMAIN events :
        events[i].utt < events[j].utt
            => events[i].segment_index < events[j].segment_index

\* C4 (amended): within one job (between two resets) the segment_index of the
\* events never decreases in emission order, the events of one utterance
\* carry one index, and every event that follows a final=true event carries
\* a strictly greater index.
C4_IndexMonotonicWithinJob ==
    \A i, j \in DOMAIN events :
        (i < j /\ events[i].job = events[j].job) =>
            /\ events[i].segment_index <= events[j].segment_index
            /\ events[i].utt = events[j].utt
                  => events[i].segment_index = events[j].segment_index
            /\ events[i].final
                  => events[i].segment_index < events[j].segment_index

C4_Witness ==
    \E i, j \in DOMAIN events :
        /\ i < j
        /\ events[i].job = events[j].job
        /\ events[i].final
        /\ events[i].utt < events[j].utt

\* the whole input of the run was delivered and pumped
InputConsumed == input_left = 0 /\ pc # "pump"

C6_NoSpeechNoSegment ==
    peak < params.start_threshold
        => /\ events = <<>>
           /\ ~in_segment
           /\ current_segment = 0
           /\ pre_roll <= pre_padding_samples(params)

C6_Witness ==
    /\ peak = 50
    /\ peak < params.start_threshold
    /\ processed_samples_total >= 3 * VadChunkSamples
    /\ pre_roll = pre_padding_samples(params)

\* C7: every emitted segment event has start_ms <= end_ms,
\* duration_ms = end_ms - start_ms and duration_ms >= min_segment_ms.
C7_SegmentTimes ==
    \A i \in DOMAIN events :
        /\ events[i].start_ms <= events[i].end_ms
        /\ events[i].duration_ms = events[i].end_ms - events[i].start_ms
        /\ events[i].duration_ms >= params.min_segment_ms

C7_Witness ==
    /\ \E i \in DOMAIN events : events[i].final /\ events[i].cause = "silence"
    /\ \E i \in DOMAIN events : ~events[i].final

FinalEvents == {i \in DOMAIN events : events[i].final}

\* C8 (as claimed): 13 s of frames of probability 0.9 with
\* max_segment_ms=12000 yield exactly one final=true event, of duration in
\* [12000, 12032], and the machine is Inactive right after that flush.
C8_MaxLenOneFinal ==
    /\ (scenario = "maxlen" /\ pc = "exit") =>
          /\ Cardinality(FinalEvents) = 1
          /\ \A i \in FinalEvents :
                events[i].duration_ms \in 12000..12032
    /\ (scenario = "maxlen" /\ last_flush.kind = "final"
            /\ last_flush.cause = "max") => ~in_segment

\* C8 (amended): the forced flush emits one final=true event of duration in
\* [12000, 12032] (segment_index 0) and leaves the machine Inactive; the
\* remaining second of voiced input re-activates it and is flushed at end of
\* input as a second final=true event (segment_index 1).
C8_MaxLenTwoFinals ==
    /\ (scenario = "maxlen" /\ pc = "exit") =>
          /\ Cardinality(FinalEvents) = 2
          /\ \E i, j \in FinalEvents :
                /\ i < j
                /\ events[i].cause = "max"
                /\ events[i].segment_index = 0
                /\ events[i].duration_ms \in 12000..12032
                /\ events[j].cause = "end"
                /\ events[j].segment_index = 1
                /\ events[j].start_ms >= events[i].end_ms
                /\ events[j].end_ms \in 13000..13032
    /\ (scenario = "maxlen" /\ last_flush.kind = "final"
            /\ last_flush.cause = "max") => ~in_segment

C8_Witness ==
    /\ scenario = "maxlen"
    /\ pc = "exit"
    /\ \E i \in FinalEvents : events[i].cause = "max"

\* the final written by the most recent flush, when the decode succeeded
LastFlushIsMaxFinal ==
    /\ last_flush.kind = "final"
    /\ last_flush.cause = "max"
    /\ last_flush.ok

\* C9 (as claimed): a final emitted by the max-length trigger keeps the whole
\* utterance buffer and is max_segment_samples long within one frame, for
\* any pre-roll length at activation.
C9_MaxFlushWithinOneFrame ==
    LastFlushIsMaxFinal =>
        LET e == events[Len(events)]
        IN  /\ e.final
            /\ e.samples = last_flush.buffer
            /\ e.samples >= max_segment_samples(params)
            /\ e.samples < max_segment_samples(params) + VadChunkSamples

\* C9 (amended): it keeps the whole buffer and is at least
\* max_segment_samples long; it is shorter than max_segment_samples + 512
\* when pre_padding_samples + 512 < max_segment_samples, and in general at
\* most max(max_segment_samples + 511, pre_padding_samples + 1024) long (the
\* activating frame never flushes, so a pre-roll as long as the maximum is
\* flushed one frame late).
C9_MaxFlushLength ==
    LastFlushIsMaxFinal =>
        LET e == events[Len(events)]
            maxs == max_segment_samples(params)
            pre == pre_padding_samples(params)
        IN  /\ e.final
            /\ e.samples = last_flush.buffer
            /\ pre_roll = 0
            /\ e.samples >= maxs
            /\ (pre + VadChunkSamples < maxs)
                  => e.samples < maxs + VadChunkSamples
            /\ e.samples <= Max(maxs + VadChunkSamples - 1,
                                pre + 2 * VadChunkSamples)

C9_Witness ==
    /\ LastFlushIsMaxFinal
    /\ events[Len(events)].samples
          < max_segment_samples(params) + VadChunkSamples
    /\ utt >= 1

\* C10: a flush (natural, max-length or end of input) whose kept length is
\* below min_segment_samples emits no final=true event for the utterance and
\* leaves the machine Inactive with an empty utterance buffer.
C10_ShortFlushDiscards ==
    (/\ last_flush.kind \in {"discard", "final"}
     /\ last_flush.keep < min_segment_samples(params))
    => /\ FinalsOf(last_flush.utt) = {}
       /\ ~in_segment
       /\ current_segment = 0

C10_Witness ==
    /\ last_flush.kind = "discard"
    /\ last_flush.cause = "silence"
    /\ last_flush.keep < min_segment_samples(params)
    /\ PartialsOf(last_flush.utt) # {}

Within(x, target, slack) == x >= target - slack /\ x <= target + slack

\* C11 (as claimed): with the default thresholds and paddings and partials
\* disabled, 400 ms of silence, 800 ms of tone and 500 ms of silence yield
\* exactly one segment event: segment_index 0, final, partial_seq 0, start_ms
\* within 64 ms of 200 and duration_ms within 64 ms of 1150.
C11_ToneSegment ==
    (scenario = "tone" /\ pc = "exit") =>
        /\ Len(events) = 1
        /\ events[1].segment_index = 0
        /\ events[1].final
        /\ events[1].partial_seq = 0
        /\ Within(events[1].start_ms, 200, 64)
        /\ Within(events[1].duration_ms, 1150, 64)

\* C11 (amended): the same, with duration_ms within 64 ms of 1350: the
\* segment holds the 200 ms of pre-padding, the 800 ms tone and the 350 ms of
\* post-padding.
C11_ToneSegmentWithPrePadding ==
    (scenario = "tone" /\ pc = "exit") =>
        /\ Len(events) = 1
        /\ events[1].segment_index = 0
        /\ events[1].final
        /\ events[1].partial_seq = 0
        /\ Within(events[1].start_ms, 200, 64)
        /\ Within(events[1].duration_ms,
                  params.pre_padding_ms + 800 + params.post_padding_ms, 64)

C11_Witness ==
    /\ scenario = "tone"
    /\ pc = "exit"
    /\ Len(events) = 1
    /\ events[1].cause = "silence"

\* a step that processed one frame (the VAD inference succeeded)
FrameProcessed ==
    processed_samples_total' = processed_samples_total + VadChunkSamples

\* the step wrote a final=false segment event
PartialEmitted ==
    \E i \in (Len(events) + 1)..Len(events') : ~events'[i].final

\* the partial condition, on the buffer extended by the frame being processed
DueAtFrame ==
    PartialDue(params, [SegState EXCEPT
                           !.current_segment = @ + VadChunkSamples])

\* i and j are consecutive final=false events of one utterance
ConsecutivePartials(i, j) ==
    /\ i < j
    /\ ~events[i].final /\ ~events[j].final
    /\ events[i].utt = events[j].utt
    /\ \A k \in DOMAIN events :
          (i < k /\ k < j) => (events[k].final \/ events[k].utt # events[i].utt)

PartialsNotBeforeMinimum ==
    \A i \in DOMAIN events :
        ~events[i].final => events[i].samples >= min_segment_samples(params)

NoPartialsWhenDisabled ==
    ~enable_partials(params) => \A i \in DOMAIN events : events[i].final

RingDid(op, ret) == ring_op.op = op /\ ring_op.ret = ret

\* C13: every delivery of s samples to the running ring, also s greater than
\* the capacity, advances total_samples by exactly s, and the timeline get
\* returns is floor(total_samples * 1000 / sample_rate).
C13_TotalCountsEveryDelivery ==
    /\ RingDid("callback", TRUE)
          => m_total_samples = ring_op.before.total + ring_op.arg
    /\ RingDid("get", TRUE)
          => current_time_ms = (m_total_samples * 1000) \div SampleRate

C13_Witness ==
    /\ RingDid("callback", TRUE)
    /\ ring_op.arg > AudioSize(RingState)
    /\ ring_op.before.total > 0
    /\ m_total_samples % (SampleRate \div 1000) # 0

\* the number of samples a window of ms covers (ms <= 0: the whole len_ms)
SamplesOfWindow(ms) ==
    (SampleRate * (IF ms <= 0 THEN RingLenMs ELSE ms)) \div 1000

\* the last n elements of a sequence
Tail_n(seq, n) == SubSeq(seq, Len(seq) - n + 1, Len(seq))

\* C14: get(window) of a running ring returns exactly the most recent
\* min(window_samples, len) samples delivered since the last resume/clear, in
\* production order, where len = min(C, samples written since then).
C14_GetReturnsMostRecent ==
    RingDid("get", TRUE) =>
        LET len == Min(AudioSize(RingState), Len(produced))
            n == Min(SamplesOfWindow(ring_op.arg), len)
        IN  /\ m_audio_len = len
            /\ result = Tail_n(produced, n)

C14_Witness ==
    /\ RingDid("get", TRUE)
    /\ m_audio_pos > 0
    /\ Len(result) > m_audio_pos
    /\ Len(result) < m_audio_len
    /\ Len(produced) > AudioSize(RingState)

\* C15: a successful clear() sets len to 0, so that a following get returns
\* no samples, and leaves total_samples and the timeline unchanged; a
\* successful resume() resets total_samples, pos and len to 0.
C15_ClearKeepsTimeline ==
    /\ RingDid("clear", TRUE) =>
          /\ m_audio_len = 0
          /\ m_total_samples = ring_op.before.total
          /\ TimelineMs(RingState) = TimelineMs(ring_op.before)
          /\ \A ms \in GetWindows, old \in OldVectors :
                get(RingState, ms, old, 0).result = <<>>
    /\ RingDid("resume", TRUE) =>
          /\ m_total_samples = 0
          /\ m_audio_pos = 0
          /\ m_audio_len = 0

C15_Witness ==
    /\ RingDid("clear", TRUE)
    /\ ring_op.before.len > 0
    /\ ring_op.before.pos > 0
    /\ m_total_samples > AudioSize(RingState)

\* C16 (as claimed): get on a ring without a device or not running returns
\* an empty sample sequence, whatever the caller's vector held before.
C16_GetNotRunningReturnsEmpty ==
    RingDid("get", FALSE) => result = <<>>

\* C17: resume() without a device or on a running ring, and pause()/clear()
\* without a device or on a ring that is not running, return false and leave
\* pos, len, total_samples and the running flag unchanged.
C17_RefusedCallsChangeNothing ==
    LET b == ring_op.before
        refused == [resume |-> ~b.dev \/ b.running,
                    pause |-> ~b.dev \/ ~b.running,
                    clear |-> ~b.dev \/ ~b.running]
    IN  \A op \in {"resume", "pause", "clear"} :
            (ring_op.op = op /\ refused[op]) =>
                /\ ring_op.ret = FALSE
                /\ m_audio_pos = b.pos
                /\ m_audio_len = b.len
                /\ m_total_samples = b.total
                /\ m_running = b.running

C17_Witness ==
    /\ RingDid("resume", FALSE)
    /\ ring_op.before.running
    /\ ring_op.before.len > 0
    /\ ring_op.before.total > 0

\* the most recent step was a call of reload_dictionary_if_needed
DictCalled(force) == dict_op.op = "reload" /\ dict_op.force = force

\* the call found the file's mtime equal to the recorded one
FoundSameMtime ==
    /\ dict_op.examined
    /\ dict_file.present
    /\ dict_file.mtime = dict_op.before.last_write_time

\* C18: a non-forced reload that finds the file mtime equal to the recorded
\* mtime emits a dictionary event with reloaded=false and leaves the cache,
\* token_seqs, entry_texts, first_token_ids, first_tokens_ordered,
\* total_tokens and last_mtime unchanged.
C18_SameMtimeIsNoOp ==
    (DictCalled(FALSE) /\ FoundSameMtime) =>
        /\ Len(dict_op.ev) = 1
        /\ dict_op.ev[1].reloaded = FALSE
        /\ dictionary_cache = dict_op.before.cache
        /\ dictionary_token_seqs = dict_op.before.token_seqs
        /\ dictionary_entry_texts = dict_op.before.entry_texts
        /\ dictionary_first_token_ids = dict_op.before.first_token_ids
        /\ dictionary_first_tokens = dict_op.before.first_tokens
        /\ last_dictionary_total_tokens = dict_op.before.total_tokens
        /\ last_dictionary_write_time = dict_op.before.last_write_time

C18_Witness ==
    /\ DictCalled(FALSE)
    /\ FoundSameMtime
    /\ dictionary_token_seqs # <<>>
    /\ dict_file.content # dictionary_cache

RECURSIVE SumOfLengths(_)
SumOfLengths(seqs) ==
    IF seqs = <<>> THEN 0 ELSE Len(Head(seqs)) + SumOfLengths(Tail(seqs))

\* C19: after every call of reload_dictionary_if_needed, dict_total_tokens is
\* the sum of the lengths of token_seqs, every sequence of token_seqs is
\* non-empty with its first token in first_token_ids, and first_token_ids and
\* first_tokens_ordered have the same members and the same size.
C19_DictionaryIndexesAgree ==
    /\ last_dictionary_total_tokens = SumOfLengths(dictionary_token_seqs)
    /\ \A i \in DOMAIN dictionary_token_seqs :
          /\ dictionary_token_seqs[i] # <<>>
          /\ Head(dictionary_token_seqs[i]) \in dictionary_first_token_ids
    /\ {dictionary_first_tokens[i] : i \in DOMAIN dictionary_first_tokens}
          = dictionary_first_token_ids
    /\ Len(dictionary_first_tokens) = Cardinality(dictionary_first_token_ids)

C19_Witness ==
    /\ DictCalled(FALSE)
    /\ Len(dict_op.ev) = 1
    /\ dict_op.ev[1].reloaded
    /\ Len(dictionary_token_seqs) >= 3
    /\ Len(dictionary_first_tokens) < Len(dictionary_token_seqs)
    /\ Len(dictionary_token_seqs) < 2 * last_dictionary_entries_raw

\* C20: a non-forced reload called less than dictionary_poll_ms after the
\* previous examination of the file does not examine the file, emits no
\* dictionary event and changes no dictionary state.
C20_PollIntervalRespected ==
    (/\ DictCalled(FALSE)
     /\ dictionary_path # ""
     /\ clock - dict_op.before.last_reload < DictPollMs)
    => /\ ~dict_op.examined
       /\ dict_op.ev = <<>>
       /\ DictState = dict_op.before

C20_Witness ==
    /\ DictCalled(FALSE)
    /\ dictionary_path # ""
    /\ clock - dict_op.before.last_reload = DictPollMs - 1
    /\ dict_file.present
    /\ dict_file.mtime # last_dictionary_write_time
    /\ ~dict_op.examined

\* the indices a read of the file on disk builds, whatever the tokenizer
\* refuses: the file's text is cached and the error is empty
RepopulatedFromFile ==
    /\ dictionary_cache = dict_file.content
    /\ last_dictionary_error = ""
    /\ last_dictionary_entries_raw
          = Len(split_dictionary_entries(dict_file.content))

\* C21 (as claimed): after a dictionary error cleared the indices, the next
\* non-rate-limited reload that finds the file readable repopulates the
\* indices from the file and reports ok=true with an empty error, whatever
\* the file's mtime is relative to the mtime recorded before the error.
C21_RecoversAfterError ==
    (/\ DictCalled(FALSE)
     /\ dict_op.examined
     /\ dict_op.before.error # ""
     /\ dict_file.present /\ dict_file.readable)
    => /\ Len(dict_op.ev) = 1
       /\ dict_op.ev[1].ok
       /\ dict_op.ev[1].reloaded
       /\ RepopulatedFromFile

\* the callback has returned
CbReturned == cb_pc = "done"

\* the cells the callback must leave alone when the control range begins
\* at `lowest`: that range, the cells behind the array, the non-finite logits
Protected(lowest) ==
    {i \in Cells : \/ i >= lowest
                   \/ i >= cb_in.n_vocab
                   \/ ~cb_in.logits[i].fin}

BoostedEntries ==
    UNION {{cb_out.packets[k].boosted[e] :
               e \in DOMAIN cb_out.packets[k].boosted} :
           k \in DOMAIN cb_out.packets}

\* C25 (as claimed): for every entry of the boosted array of a logits
\* packet, the callback increased the logit of that id during this
\* invocation by exactly the entry's bias: logit_after minus the logit on
\* entry to the callback equals bias.
C25_BoostedEntriesWereApplied ==
    CbReturned
    => \A e \in BoostedEntries :
          /\ cb_in.logits[e.id].fin
          /\ e.logit_after = Fin(cb_in.logits[e.id].v + e.bias)

\* between the building of the decode context and the return of whisper_full
Decoding == dec_pc = "decoding"

\* C22: the bias callback never observes a half-updated dictionary: from
\* the building of the decode context to the return of whisper_full the
\* indices the context points to are those it was built from, so every
\* callback invocation of one decode sees the same indices; the indices
\* change only in the reload at startup and in the reload at decode entry,
\* before the context is built.
C22_IndicesStableDuringDecode ==
    /\ [](Decoding => Indices(DictState) = built_from)
    /\ [][Indices(DictState)' # Indices(DictState)
            => dec_pc \in {"start", "idle"}]_vars

\* two callbacks were made in a decode over a loaded dictionary while the
\* file was replaced by one with another text and another mtime
C22_Witness ==
    /\ Decoding
    /\ dec_params.bias_decoding
    /\ n_tokens = 2
    /\ built_from.token_seqs # <<>>
    /\ dict_file.present /\ dict_file.readable
    /\ dict_file.mtime # last_dictionary_write_time
    /\ dict_file.content # dictionary_cache

\* the reload at the entry of the latest decode was not rate-limited and
\* found a readable file with an mtime other than the recorded one
FileChangedAtEntry ==
    /\ decode_no >= 1
    /\ dictionary_path # ""
    /\ dict_op.elapsed >= DictPollMs
    /\ dec_call.file.present
    /\ dec_call.file.readable
    /\ dec_call.file.mtime # dict_op.before.last_write_time

\* the dictionary state a read of the file found at entry builds when the
\* tokenizer refuses the texts in `fails`
LoadedAtEntry(fails) == DictLoaded(dict_op.before, dec_call.file, fails)

\* C23: if the dictionary file's content and mtime changed, the next decode
\* that starts at least dictionary_poll_ms after the previous examination
\* emits a dictionary event with reloaded=true before its segment event,
\* and the bias context and the prompt of that decode are built from the
\* new content of the file.
C23_ChangedFileUsedByNextDecode ==
    FileChangedAtEntry
    => /\ Len(dict_op.ev) = 1
       /\ dict_op.ev[1].reloaded
       /\ dict_op.ev[1].dict_cache_bytes = Len(dec_call.file.content)
       /\ \A j \in DOMAIN stdout :
             (stdout[j].event = "segment" /\ stdout[j].decode = decode_no)
             => \E i \in 1..(j - 1) :
                   /\ stdout[i].event = "dictionary"
                   /\ stdout[i].decode = decode_no
                   /\ stdout[i].reloaded
       /\ Decoding
          => /\ initial_prompt
                   = IF dec_params.send_prompt
                        /\ dec_call.file.content # <<>>
                     THEN <<dec_call.file.content>> ELSE <<>>
             /\ \E fails \in DecodeFailSets :
                   /\ built_from = Indices(LoadedAtEntry(fails))
                   /\ dec_params.bias_decoding
                      => bctx = BuildBctx(dec_params, dec_args,
                                          LoadedAtEntry(fails))

\* the second decode found another text in the file than the one loaded,
\* passed it as prompt, biased with it and wrote its segment event
C23_Witness ==
    /\ FileChangedAtEntry
    /\ decode_no = 2
    /\ dec_pc = "idle"
    /\ dec_params.bias_decoding
    /\ dict_op.before.cache # <<>>
    /\ dec_call.file.content # dict_op.before.cache
    /\ initial_prompt = <<dec_call.file.content>>
    /\ bctx.dict_token_seqs
    /\ stdout[Len(stdout)].event = "segment"
    /\ stdout[Len(stdout)].decode = 2

\* the clamp warnings on stderr
ClampWarnings ==
    {k \in DOMAIN stderr : stderr[k].line = "clamping --beam-size"}

\* the bias setup of emit_transcription has run at least once
BiasSetupDone ==
    /\ dec_params.bias_decoding
    /\ \/ decode_no >= 2
       \/ decode_no = 1 /\ dec_pc # "reloaded"

\* C26: with bias decoding enabled every decode runs with beam size
\* clamp(requested_beam, 2, 8), and in a run with a requested beam above 8
\* there is exactly one clamp warning on stderr however many decodes were
\* made.
C26_BeamClampedOneWarning ==
    /\ (Decoding /\ dec_params.bias_decoding)
       => beam_size = Clamp(RequestedBeam(dec_params), 2, WhisperMaxDecoders)
    /\ (BiasSetupDone /\ RequestedBeam(dec_params) > WhisperMaxDecoders)
       => /\ Cardinality(ClampWarnings) = 1
          /\ \A k \in ClampWarnings :
                stderr[k].to = WhisperMaxDecoders

\* the second decode of a run with --beam-size 9 is under way
C26_Witness ==
    /\ Decoding
    /\ decode_no = 2
    /\ dec_params.bias_decoding
    /\ RequestedBeam(dec_params) = 9
    /\ beam_size = WhisperMaxDecoders
    /\ Cardinality(ClampWarnings) = 1

\* the lines of stdout that are logits packets or segment events
DecodeLines == {k \in DOMAIN stdout : stdout[k].event \in {"logits", "segment"}}

SameTriple(a, b) ==
    /\ a.segment_index = b.segment_index
    /\ a.partial_seq = b.partial_seq
    /\ a.final = b.final

\* C27: all logits packets of one decode carry the (segment_index,
\* partial_seq, final) triple of that decode's segment event, stand on
\* stdout before that segment event, and no logits packet or segment event
\* of another decode stands between them.
C27_PacketsBelongToTheirSegment ==
    \A i \in DecodeLines, j \in DecodeLines :
        (stdout[i].decode = stdout[j].decode /\ i < j)
        => /\ SameTriple(stdout[i], stdout[j])
           /\ stdout[i].event = "logits"
           /\ \A k \in DecodeLines :
                 (i < k /\ k < j) => stdout[k].decode = stdout[i].decode

\* two decodes wrote two logits packets each and then their segment event
C27_Witness ==
    /\ Len(stdout) >= 6
    /\ \E j \in DOMAIN stdout :
          /\ j + 3 <= Len(stdout)
          /\ stdout[j].event = "segment"
          /\ stdout[j].decode = 1
          /\ stdout[j - 1].event = "logits"
          /\ stdout[j - 2].event = "logits"
          /\ stdout[Len(stdout)].event = "segment"
          /\ stdout[Len(stdout)].decode = 2
          /\ stdout[Len(stdout) - 1].event = "logits"
          /\ stdout[Len(stdout) - 2].event = "logits"
          /\ ~SameTriple(stdout[j], stdout[Len(stdout)])

\* C28 (as claimed): in stdin-pcm mode a tag byte other than B, E, J or Q
\* ends the read loop: once such a tag was read no further message from
\* stdin is processed and no further event is emitted.
C28_UnknownTagEndsLoop ==
    /\ [](skipped_tags > 0 => pc = "exit")
    /\ [][skipped_tags > 0
            => /\ events' = events
               /\ job_events' = job_events
               /\ vad_events' = vad_events
               /\ pending_samples' = pending_samples
               /\ input_left' = input_left]_vars

\* the job events of n complete jobs
RECURSIVE Brackets(_)
Brackets(n) ==
    IF n = 0 THEN <<>> ELSE Brackets(n - 1) \o <<"job_start", "job_end">>

\* C29 (as claimed): in stdin-audio mode every non-empty input line other
\* than __quit__ produces exactly one job_start and then one job_end, all
\* vad and segment events of the file lie between them, no utterance is
\* Active after job_end, and every job starts from the reset state
\* (Inactive, empty staging and pre-roll, processed sample total 0).
C29_EveryLineIsBracketed ==
    /\ [](mode = "stdin_audio"
            => /\ pc \in {"read", "exit"}
                  => job_events = Brackets(resets) /\ ~in_segment
               /\ pc = "pump"
                  => job_events
                        = Brackets(resets - 1) \o <<"job_start">>)
    /\ [][mode = "stdin_audio"
            => /\ (events' # events \/ vad_events' # vad_events)
                  => pc = "pump"
               /\ job_events' = Append(job_events, "job_start")
                  => /\ SegState' = ResetState
                     /\ input_left' < input_left
                           => pending_samples'
                                 = PadToChunk(input_left - input_left')]_vars

\* the step made a partial decode that failed
PartialDecodeFailed ==
    /\ FrameProcessed
    /\ in_segment
    /\ DueAtFrame
    /\ ~PartialEmitted

\* the step made a final decode that failed
FinalDecodeFailed == last_flush'.kind = "final" /\ ~last_flush'.ok

\* C30: a failed partial decode emits no segment event and leaves the
\* utterance Active with its buffer intact, so that the next partial or the
\* final decodes the whole buffer; a failed final decode emits no segment
\* event, drops the utterance and leaves the machine Inactive, and later
\* utterances are segmented as after any other flush.
C30_FailedDecodeEffects ==
    /\ [][PartialDecodeFailed
            => /\ \A i \in (Len(events) + 1)..Len(events') : events'[i].final
               /\ last_flush'.kind = "none"
                  => /\ in_segment'
                     /\ current_segment' = current_segment + VadChunkSamples
               /\ last_flush'.kind # "none"
                  => last_flush'.buffer = current_segment + VadChunkSamples]_vars
    /\ [][(FrameProcessed /\ PartialEmitted)
            => events'[Len(events) + 1].samples
                  = current_segment + VadChunkSamples]_vars
    /\ [][FinalDecodeFailed
            => /\ \A i \in (Len(events) + 1)..Len(events') : ~events'[i].final
               /\ ~in_segment'
               /\ current_segment' = 0
               /\ partial_sequence' = 0
               /\ active_segment_index' = -1]_vars

\* the first utterance lost its final to a failed decode, after a partial
\* of it was emitted; the second utterance was then emitted
C30_Witness ==
    /\ \E i \in DOMAIN events : events[i].utt = 1 /\ ~events[i].final
    /\ \A i \in DOMAIN events : events[i].utt = 1 => ~events[i].final
    /\ \E i \in DOMAIN events :
          /\ events[i].utt = 2
          /\ events[i].final
          /\ events[i].segment_index = 1

\* ---------------------------------------------------------------------- C31

\* the number after the last sample of the frame most recently cut
FrameEnd == cut_end

\* a step of the frame loop cut a frame from the staging deque
FrameCut == chunk_buffer' # chunk_buffer /\ chunk_buffer' # <<>>

\* the frame cut by this step is one block of 512 samples that begins at `from`
\* and the samples staged behind it stay, in their order
CutsBlockAt(from) ==
    /\ chunk_buffer' = <<[lo |-> from, hi |-> from + VadChunkSamples]>>
    /\ staging # <<>>
    /\ staging[1].lo = from
    /\ staging' = StageDrop(staging, VadChunkSamples)
    /\ StageSize(staging') = StageSize(staging) - VadChunkSamples

\* process_pending_chunks has returned: main() reads input, flushes or exits
PumpReturned == pc \in {"read", "exit"} \/ ENABLED EndOfFile

\* C31 as claimed: every VAD frame is the block of 512 samples staged right
\* after the previous frame (frames are consecutive, non-overlapping and in
\* staging order), and when the pump returns fewer than 512 samples stay
\* staged, which begin the next frame.
C31_FramesAreConsecutiveBlocks ==
    /\ [](PumpReturned => StageSize(staging) < VadChunkSamples)
    /\ [][FrameCut => CutsBlockAt(FrameEnd)]_vars

\* C31 amended: the frame is the block of the 512 oldest staged samples, which
\* follows the previous frame except for the samples reset_segment_state
\* cleared from the deque in between
C31_FramesAreConsecutiveBlocksBetweenResets ==
    /\ [](PumpReturned => StageSize(staging) < VadChunkSamples)
    /\ [](StageSize(staging) = pending_samples)
    /\ [][FrameCut => CutsBlockAt(FrameEnd + dropped)]_vars

\* the second frame has been cut from the remainder of one J message and the
\* beginning of the next
C31_Witness ==
    /\ mode = "stdin_pcm"
    /\ chunk_buffer = <<[lo |-> VadChunkSamples, hi |-> 2 * VadChunkSamples]>>
    /\ staging = <<[lo |-> 2 * VadChunkSamples, hi |-> 3 * VadChunkSamples]>>
    /\ resets = 0

\* ---------------------------------------------------------------------- C32

\* processed_samples_total after the frame being processed
TotalAfterFrame == processed_samples_total + VadChunkSamples

\* segment_samples and silence_samples as the frame being processed computes
\* them; last_level' is the probability of that frame
SegmentSamplesAtFrame == TotalAfterFrame - segment_start_sample

SilenceSamplesAtFrame ==
    IF last_level' >= params.stop_threshold THEN 0
    ELSE TotalAfterFrame - last_voice_sample

ForcedDue == SegmentSamplesAtFrame >= max_segment_samples(params)

NaturalDue ==
    /\ SilenceSamplesAtFrame >= min_silence_samples(params)
    /\ SilenceSamplesAtFrame >= post_padding_samples(params)

\* the step called flush_segment on an utterance
FlushedAtFrame == last_flush'.kind \in {"final", "discard"}

\* C32: at a frame processed while Active the utterance is flushed iff
\* segment_samples >= max_segment_samples (forced) or silence_samples reaches
\* both min_silence_samples and post_padding_samples (natural); the flush is
\* forced iff the first condition holds, also when both hold; the frame that
\* activates an utterance leaves it Active.
C32_FlushIffTriggered ==
    /\ [][(FrameProcessed /\ in_segment)
             => /\ FlushedAtFrame <=> (ForcedDue \/ NaturalDue)
                /\ FlushedAtFrame => ~in_segment'
                /\ FlushedAtFrame => (last_flush'.forced <=> ForcedDue)
                /\ ~FlushedAtFrame => (in_segment' /\ last_flush'.kind = "none")]_vars
    /\ [][(FrameProcessed /\ ~in_segment)
             => /\ last_flush'.kind = "none"
                /\ in_segment' <=> last_level' >= params.start_threshold]_vars

\* a forced flush at a frame where the natural condition held as well
C32_Witness ==
    /\ last_flush.kind = "final"
    /\ last_flush.cause = "max"
    /\ last_flush.forced
    /\ last_flush.silence >= min_silence_samples(params)
    /\ last_flush.silence >= post_padding_samples(params)
    /\ ~in_segment

\* ---------------------------------------------------------------------- C33

\* the utterance buffer the frame being processed flushes: the buffer before
\* the frame followed by the frame
BufferAtFrame == StageConcat(segment_buf, chunk_buffer')

\* last_voice_sample after the update the frame being processed makes
LastVoiceAtFrame ==
    IF last_level' >= params.stop_threshold THEN TotalAfterFrame
    ELSE last_voice_sample

\* min(|buffer|, max(last_voice_sample + post_padding_samples, start_sample)
\*               - start_sample)
NaturalKeep ==
    Min(StageSize(BufferAtFrame),
        Max(LastVoiceAtFrame + post_padding_samples(params),
            segment_start_sample) - segment_start_sample)

\* the step made a natural flush that decoded a final
NaturalFinal ==
    /\ FrameProcessed
    /\ last_flush'.kind = "final"
    /\ ~last_flush'.forced

\* the step wrote a final=true segment event
FinalEmitted ==
    /\ Len(events') = Len(events) + 1 \/ Len(events') = Len(events) + 2
    /\ events'[Len(events')].final

\* C33: a natural flush decodes exactly the first
\* min(|buffer|, max(last_voice_sample + post_padding_samples, start_sample)
\* - start_sample) samples of the utterance buffer, the final it emits has
\* that many samples, and the pre-roll becomes the samples beyond them, cut
\* to the most recent pre_padding_samples.
C33_NaturalFlushSplitsBuffer ==
    /\ [][NaturalFinal
             => /\ final_audio' = StageTake(BufferAtFrame, NaturalKeep)
                /\ FinalEmitted
                      => events'[Len(events')].samples = NaturalKeep
                /\ LET beyond == StageDrop(BufferAtFrame, NaturalKeep)
                       n == StageSize(beyond) - pre_padding_samples(params)
                   IN  pre_roll_buf' = IF n > 0 THEN StageDrop(beyond, n)
                                       ELSE beyond
                /\ pre_roll' = StageSize(pre_roll_buf')
                /\ segment_buf' = <<>>]_vars
    /\ [](pre_roll <= pre_padding_samples(params))
    /\ [](StageSize(pre_roll_buf) = pre_roll)
    /\ [](StageSize(segment_buf) = current_segment)

\* a natural flush has emitted a final shorter than the buffer and left a
\* pre-roll that is the capped tail of the rest
C33_Witness ==
    /\ last_flush.kind = "final"
    /\ ~last_flush.forced
    /\ last_flush.ok
    /\ last_flush.keep < last_flush.buffer
    /\ events # <<>>
    /\ events[Len(events)].final
    /\ events[Len(events)].samples = StageSize(final_audio)
    /\ pre_roll = pre_padding_samples(params)
    /\ pre_roll < last_flush.buffer - last_flush.keep
    /\ pre_roll_buf # <<>>
    /\ pre_roll_buf[Len(pre_roll_buf)].hi = processed_samples_total

\* ---------------------------------------------------------------------- C34

\* the end of the audio of the latest final decode
FinalAudioEnd ==
    IF final_audio = <<>> THEN 0 ELSE final_audio[Len(final_audio)].hi

\* C34: while Active, start_sample + |utterance buffer| is the number of
\* samples processed, and at every activation pre-roll + 512 is at most the
\* processed total, so that start_sample is the unclamped
\* total - pre-roll - 512.
C34_StartPlusBufferIsTotal ==
    /\ [](in_segment =>
             /\ segment_start_sample + current_segment = processed_samples_total
             /\ StageSize(segment_buf) = current_segment
             /\ segment_start_sample >= 0)
    /\ [](pre_roll <= processed_samples_total)
    /\ [][(FrameProcessed /\ ~in_segment /\ in_segment')
             => /\ TotalAfterFrame - pre_roll - VadChunkSamples >= 0
                /\ segment_start_sample'
                      = TotalAfterFrame - pre_roll - VadChunkSamples
                /\ current_segment' = pre_roll + VadChunkSamples]_vars

\* the second utterance of a run that skipped a VAD frame is Active on a
\* pre-roll that was the leftover of the first utterance's natural flush
C34_Witness ==
    /\ in_segment
    /\ mode = "offline"
    /\ scenario = "free"
    /\ vad_failures_left = 0
    /\ segment_index = 1
    /\ current_segment > pre_padding_samples(params) + VadChunkSamples
    /\ current_segment % VadChunkSamples = pre_padding_samples(params)
    /\ segment_buf[1].lo >= FinalAudioEnd
    /\ segment_buf[1].lo + pre_padding_samples(params)
          <= FinalAudioEnd + 2 * VadChunkSamples - post_padding_samples(params)

\* ---------------------------------------------------------------- C35, C36

\* the first l tokens of seq are the last l tokens of the prefix
SuffixMatches(seq, l) ==
    \A j \in 1..l : seq[j] = cb_in.tokens[Len(cb_in.tokens) - l + j]

\* the lengths l in [1, min(prefix_len, |seq| - 1)] at which seq matches
MatchLengths(seq) ==
    {l \in 1..Min(Len(cb_in.tokens), Len(seq) - 1) : SuffixMatches(seq, l)}

LargestMatch(seq) ==
    CHOOSE l \in MatchLengths(seq) : \A k \in MatchLengths(seq) : k <= l

\* the dictionary sequences that match a continuation whose target is id
SeqsContinuingWith(id) ==
    {i \in DOMAIN cb_in.dict.token_seqs :
        LET seq == cb_in.dict.token_seqs[i]
        IN  /\ MatchLengths(seq) # {}
            /\ seq[LargestMatch(seq) + 1] = id}

AnyContinuation ==
    \E i \in DOMAIN cb_in.dict.token_seqs :
        MatchLengths(cb_in.dict.token_seqs[i]) # {}

\* the ids on which add_bias acts: in the vocabulary, outside the control
\* range when token_beg > 0, with a finite logit
Biasable(i) ==
    /\ i \in 0..(cb_in.n_vocab - 1)
    /\ ~(cb_in.token_beg > 0 /\ i >= cb_in.token_beg)
    /\ cb_in.logits[i].fin

\* what the invocation added to logit i
Added(i) == cb_out.logits[i].v - cb_in.logits[i].v

FirstTokenIds ==
    {cb_in.dict.first_tokens[k] : k \in DOMAIN cb_in.dict.first_tokens}

\* C35: every dictionary sequence of length >= 2 that matches the end of the
\* prefix adds bias_continuation_logit once to the token after its longest
\* match (through add_bias); sequences that do not match, or of length 1,
\* add nothing, so that a logit grows by the bias times the number of
\* sequences that continue with it.
C35_ContinuationBoostPerSequence ==
    CbReturned
    => /\ \A i \in Cells :
             IF Biasable(i)
             THEN /\ cb_out.logits[i].fin
                  /\ AnyContinuation
                        => Added(i) = cb_in.bctx.bias_continuation_logit
                                         * Cardinality(SeqsContinuingWith(i))
                  /\ ~AnyContinuation
                        => Added(i) \in {0, cb_in.bctx.bias_first_logit}
             ELSE cb_out.logits[i] = cb_in.logits[i]
       /\ \A k \in DOMAIN cb_out.packets :
             cb_out.packets[k].boosted_cont_count
                = Cardinality({id \in TokenIds : SeqsContinuingWith(id) # {}})

\* the prefix ends with a a, the sequence a a b matches at lengths 1 and 2,
\* and the token after the longer match was boosted, not the one after the
\* shorter
C35_Witness ==
    /\ CbReturned
    /\ cb_in.tokens = <<1, 1>>
    /\ \E i \in DOMAIN cb_in.dict.token_seqs :
          /\ cb_in.dict.token_seqs[i] = <<1, 1, 2>>
          /\ MatchLengths(cb_in.dict.token_seqs[i]) = {1, 2}
    /\ Biasable(1) /\ Biasable(2)
    /\ Added(2) = cb_in.bctx.bias_continuation_logit
    /\ Added(1) = 0

\* C36: the first-token boosts are applied iff no dictionary sequence
\* matched a continuation: then each id of first_tokens_ordered, which holds
\* no id twice, gets bias_first_logit once (through add_bias) and nothing
\* else changes; if a sequence matched, logits change by continuation boosts
\* only.
C36_FirstBoostsIffNoContinuation ==
    CbReturned
    => /\ \A j, k \in DOMAIN cb_in.dict.first_tokens :
             cb_in.dict.first_tokens[j] = cb_in.dict.first_tokens[k] => j = k
       /\ \A i \in Cells :
             Biasable(i)
             => Added(i)
                   = IF AnyContinuation
                     THEN cb_in.bctx.bias_continuation_logit
                             * Cardinality(SeqsContinuingWith(i))
                     ELSE IF i \in FirstTokenIds
                     THEN cb_in.bctx.bias_first_logit
                     ELSE 0
       /\ \A k \in DOMAIN cb_out.packets :
             cb_out.packets[k].boosted_first_total
                = IF AnyContinuation THEN 0
                  ELSE Len(cb_in.dict.first_tokens)

\* a sequence matched, and a dictionary first token that add_bias would act
\* on was left as it was
C36_Witness ==
    /\ CbReturned
    /\ AnyContinuation
    /\ cb_in.bctx.bias_first_logit > 0
    /\ \E i \in FirstTokenIds :
          /\ Biasable(i)
          /\ SeqsContinuingWith(i) = {}
          /\ cb_out.logits[i] = cb_in.logits[i]
    /\ \E i \in Cells : Biasable(i) /\ Added(i) > 0

\* ---------------------------------------------------------------------- C38

\* the ids of the vocabulary whose logit is finite on return
FiniteOnReturn == {i \in 0..(cb_in.n_vocab - 1) : cb_out.logits[i].fin}

\* the ids listed in the top array of packet k
TopIds(k) ==
    {cb_out.packets[k].top[j].id : j \in DOMAIN cb_out.packets[k].top}

\* C38: the top array of a packet has min(k, number of finite logits)
\* entries, k being logits_top_k; they are distinct ids with their logits
\* after the boosts, in non-increasing order, and no finite logit outside
\* the array is greater than one inside.
C38_TopHoldsLargestInOrder ==
    CbReturned
    => \A k \in DOMAIN cb_out.packets :
          LET top == cb_out.packets[k].top
          IN  /\ Len(top) = Min(Max(1, cb_in.bctx.logits_top_k),
                                Cardinality(FiniteOnReturn))
              /\ Cardinality(TopIds(k)) = Len(top)
              /\ TopIds(k) \subseteq FiniteOnReturn
              /\ \A j \in DOMAIN top : top[j].logit = cb_out.logits[top[j].id]
              /\ \A j \in 1..(Len(top) - 1) : top[j].logit.v >= top[j + 1].logit.v
              /\ \A i \in FiniteOnReturn \ TopIds(k) :
                    \A j \in DOMAIN top : cb_out.logits[i].v <= top[j].logit.v

\* with k = 2 and four finite logits the two ids pushed first were both
\* replaced by greater logits found later
C38_Witness ==
    /\ CbReturned
    /\ cb_in.bctx.logits_top_k = 2
    /\ Cardinality(FiniteOnReturn) >= 4
    /\ cb_out.packets # <<>>
    /\ Len(cb_out.packets[1].top) = 2
    /\ cb_out.packets[1].top[1].logit.v > cb_out.packets[1].top[2].logit.v
    /\ \A i \in TopIds(1) : i >= 2
    /\ {0, 1} \subseteq FiniteOnReturn

\* ---------------------------------------------------------------------- C37

\* the step took a frame whose VAD inference failed
InferFailed == vad_failures_left' = vad_failures_left - 1

\* C37: a frame whose VAD inference fails is consumed from the staging
\* deque, writes no vad event and no segment event, and leaves the
\* segmentation state unchanged (Active/Inactive, utterance buffer,
\* pre-roll, last_voice_sample, processed total, partial counters,
\* segment_index); every other frame writes its vad event, so that in a run
\* without resets the vad events count the processed samples.
C37_FailedFrameIsSkipped ==
    /\ [][InferFailed
             => /\ staging # <<>>
                /\ CutsBlockAt(staging[1].lo)
                /\ pending_samples' = pending_samples - VadChunkSamples
                /\ vad_events' = vad_events
                /\ events' = events
                /\ SegState' = SegState
                /\ segment_buf' = segment_buf
                /\ pre_roll_buf' = pre_roll_buf]_vars
    /\ [][(FrameCut /\ ~InferFailed)
             => /\ FrameProcessed
                /\ vad_events' = vad_events + 1]_vars
    /\ []((resets = 0 /\ params.emit_vad_events)
             => vad_events * VadChunkSamples = processed_samples_total)

\* a frame failed inside an utterance, which went on and ended with a final
\* whose audio is the frames before and after the failed one
C37_Witness ==
    /\ vad_failures_left = 0
    /\ mode = "offline"
    /\ scenario = "free"
    /\ last_flush.kind = "final"
    /\ last_flush.ok
    /\ Len(final_audio) = 2
    /\ final_audio[2].lo = final_audio[1].hi + VadChunkSamples
    /\ events # <<>>
    /\ events[Len(events)].samples = StageSize(final_audio)

\* ---------------------------------------------------------------------- C40

\* the step called flush_segment at the end of the input or for an E tag
EndFlush ==
    /\ last_flush'.kind # "none"
    /\ last_flush'.cause = "end"
    /\ job_events' # job_events \/ pc' # pc

\* C40: flush_segment called while Inactive returns at once: no segment
\* event, segment_index and the pre-roll as they were, still Inactive.  Every
\* flush leaves the machine Inactive, so of two flushes with no frame between
\* them the second emits nothing.
C40_InactiveFlushIsNoOp ==
    /\ [][(EndFlush /\ ~in_segment)
             => /\ last_flush'.kind = "idle"
                /\ events' = events
                /\ segment_index' = segment_index
                /\ pre_roll' = pre_roll
                /\ pre_roll_buf' = pre_roll_buf
                /\ final_audio' = final_audio
                /\ ~in_segment']_vars
    /\ [](last_flush.kind # "none" => (~in_segment /\ current_segment = 0))
    /\ [][(last_flush.kind # "none" /\ EndFlush) => events' = events]_vars

\* two E tags in a row after an utterance: the first emitted its final, the
\* second found the machine Inactive and left the index and the events
C40_Witness ==
    /\ mode = "stdin_pcm"
    /\ last_flush.kind = "idle"
    /\ Len(job_events) >= 2
    /\ job_events[Len(job_events)] = "job_end"
    /\ job_events[Len(job_events) - 1] = "job_end"
    /\ events # <<>>
    /\ events[Len(events)].final
    /\ events[Len(events)].cause = "end"
    /\ segment_index = events[Len(events)].segment_index + 1
    /\ Cardinality({i \in DOMAIN events : events[i].final}) = 1

\* the samples the device has delivered are numbered 1, 2, ...; the staged
\* ones, as one run from the first
StagedPrefix == StagePush(<<>>, 1, StageSize(staging))

\* C39: in live capture, when no more samples than the fetch window arrive
\* between two polls, the staging deque holds the captured samples once each
\* and in timeline order (none duplicated, none skipped), and never more
\* samples than the ring's total_samples.
C39_LiveStagingIsCapturedStream ==
    /\ staging = StagedPrefix
    /\ StageSize(staging) <= m_total_samples

\* the part of C39 the loop keeps: the staged count is within the timeline,
\* and samples are staged in increasing order of capture or repeated
C39_StagedCountWithinTimeline ==
    /\ StageSize(staging) <= m_total_samples
    /\ \A i \in DOMAIN staging : staging[i].hi <= next_sample

\* a sample the loop never staged lies before the staged ones
C39_Skipped == staging # <<>> /\ staging[1].lo > 1

\* a sample is staged twice
C39_Duplicated ==
    \E i \in DOMAIN staging : i > 1 /\ staging[i].lo < staging[i - 1].hi

====
